---- MODULE Spec2Model ----
(***************************************************************************)
(* Research-Paper-Reader-AI: the section pipeline (handleFileUpload) and   *)
(* the audio playback scheduler (queueAudio, stopAudio, togglePlayback,    *)
(* setPlaybackSpeed, reset) of the App component, with the browser pieces  *)
(* they rest on: one AudioContext clock, AudioBufferSourceNodes, and       *)
(* setTimeout timers that run on the wall clock.                           *)
(*                                                                         *)
(* Time is counted in units of 100 ms.  A playback rate r is kept as the   *)
(* integer 4*r (0.75 -> 3, 1.0 -> 4, 1.25 -> 5, 1.5 -> 6, 2.0 -> 8) and a   *)
(* source's playhead position in quarter units, so that duration / rate    *)
(* is exact for the durations drawn here.                                  *)
(*                                                                         *)
(* The reading of the audio clock is the origin of time: every instant on  *)
(* that clock (the next-start cursor, a source's start) is kept as its     *)
(* distance from ctx.currentTime, which therefore reads CurrentTime = 0 in *)
(* every expression, and the passing of dt on the audio clock lowers each  *)
(* kept instant by dt.  An instant of the past is only ever compared with  *)
(* the present, so the cursor stops at -1 once it is passed.  The value 0  *)
(* with which the code marks the cursor as unset, and which no set cursor  *)
(* has (a set cursor is at least 0.1), is kept apart as Unset.             *)
(***************************************************************************)
EXTENDS Integers, Sequences, FiniteSets, TLC

\* ------------------------------------------------------------------ bounds
\* uploads in a session
MaxRuns == 2
\* uploads in a session under Spec and SpecRate
SoloRuns == 1
\* sections returned by extractSections under SpecUpload, where a document is
\* uploaded after another
UploadSections == 1
\* sections returned by extractSections
MaxSections == 2
\* blocks returned by processSectionText for a section
MaxBlocks == 2
\* the same under SpecRate, where the playback rate varies
RateBlocks == 1
\* the longest stretch of time that passes in one step
Quantum == 15
\* pages of an uploaded document
MaxPages == 3
\* items of the array an LLM answers with, for a call taken by itself
MaxItems == 2
\* tokens of a text, for a call taken by itself
MaxTokens == 2
MaxChars == 3
ChunkLimit == 2
MaxPrefetch == 2
MaxBatchBlocks == 7
MaxCleanLen == 4
MaxKeyLen == 1

\* ------------------------------------------------------- program constants
\* ctx.currentTime + 0.1
LeadIn == 1
Concurrency == 3
\* SPEED_OPTIONS, each value times 4
Speeds == {3, 4, 5, 6, 8}
\* useRef<PlaybackSpeed>(1.0) and AppState.playbackSpeed: 1.0
InitialSpeed == 4
\* durations of the decoded audio buffers (multiples of 3 s)
Durations == {30}

\* ctx.currentTime, the origin
CurrentTime == 0
\* nextStartTimeRef.current === 0
Unset == -1000

Null == <<>>

VARIABLES
    \* React state (AppState and showKeyInput)
    status, error, sections, currentlyPlayingBlockId, playbackSpeed, showKeyInput,
    \* the AudioContext
    ctxState,
    \* refs
    audioQueue, nextStartTime, allBlocks, playbackSpeedRef,
    \* the browser: pending setTimeout callbacks, stopped sources whose
    \* ended event is still to be delivered
    timers, stopped,
    \* the invocations of handleFileUpload
    runs, nruns,
    \* history: the instant at which the segment of the last enqueue since the
    \* last stopAudio ends when played at the rate of its enqueue (Unset: none)
    lastEnd,
    \* a call of a function of services/geminiService.ts taken by itself: its
    \* arguments, what the network answers, and what it returns
    svc,
    \* prefetchingRef, and the executions of prefetchNextSection that are in flight
    prefetching, prefetches,
    \* the credentials: the two items of localStorage (Null: no item), the React
    \* state read from them, and the two fields of the settings panel
    keys

\* the App component and the browser under it
app == <<status, error, sections, currentlyPlayingBlockId, playbackSpeed, showKeyInput,
         ctxState, audioQueue, nextStartTime, allBlocks, playbackSpeedRef,
         timers, stopped, runs, nruns, lastEnd, prefetching, prefetches, keys>>

vars == <<status, error, sections, currentlyPlayingBlockId, playbackSpeed, showKeyInput,
          ctxState, audioQueue, nextStartTime, allBlocks, playbackSpeedRef,
          timers, stopped, runs, nruns, lastEnd, svc, prefetching, prefetches, keys>>


Max(a, b) == IF a >= b THEN a ELSE b
Min(a, b) == IF a <= b THEN a ELSE b

RunIds == 1..MaxRuns

PrefetchIds == 1..MaxPrefetch

\* nothing in localStorage: getItem(..) || '' for both keys, the fields start as
\* the keys
NoKeys == [openrouter_api_key |-> Null, deepgram_api_key |-> Null,
           openRouterKey |-> Null, deepgramKey |-> Null,
           tempOpenRouterKey |-> Null, tempDeepgramKey |-> Null]

\* both keys in localStorage
SavedKeys == [openrouter_api_key |-> <<"k">>, deepgram_api_key |-> <<"k">>,
              openRouterKey |-> <<"k">>, deepgramKey |-> <<"k">>,
              tempOpenRouterKey |-> <<"k">>, tempDeepgramKey |-> <<"k">>]

\* !openRouterKey || !deepgramKey
KeysMissing(ks) == ks.openRouterKey = Null \/ ks.deepgramKey = Null

\* the locals of one execution of prefetchNextSection past its guard: where it
\* awaits, its sectionIndex, the number of blocks processSectionText returned
NoPrefetch == [pc |-> "none", sec |-> 0, nblk |-> 0]

\* the locals of one invocation of handleFileUpload: where it awaits (pc), the
\* sections extractSections returned (secs) and their number, the loop index i,
\* the blocks of section i (their number, whether they are the fallback block),
\* the index j of the block being synthesized, fullBlocks, and the playbackSpeed
\* of the render it closes over
NoRun == [pc |-> "none", secs |-> <<>>, nsec |-> 0, i |-> 0, nblk |-> 0, fb |-> FALSE,
          j |-> 0, full |-> <<>>, speed0 |-> InitialSpeed]

DoneRun == [NoRun EXCEPT !.pc = "done"]

InitApp ==
    /\ status = "IDLE"
    /\ error = "none"
    /\ sections = <<>>
    /\ currentlyPlayingBlockId = Null
    /\ playbackSpeed = InitialSpeed
    \* localStorage is empty, or holds what an earlier visit saved
    /\ keys \in {NoKeys, SavedKeys}
    \* useState(!openRouterKey || !deepgramKey)
    /\ showKeyInput = KeysMissing(keys)
    /\ ctxState = "none"
    /\ audioQueue = <<>>
    /\ nextStartTime = Unset
    /\ allBlocks = <<>>
    /\ playbackSpeedRef = InitialSpeed
    /\ timers = {}
    /\ stopped = {}
    /\ runs = [r \in RunIds |-> NoRun]
    /\ nruns = 0
    /\ lastEnd = Unset
    /\ prefetching = FALSE
    /\ prefetches = [p \in PrefetchIds |-> NoPrefetch]

\* no call of a service function is looked at by itself
NoCall == [fn |-> "none", pages |-> 0, sec |-> 0, text |-> <<>>, resp |-> <<>>, ans |-> <<>>,
           blocks |-> <<>>, i |-> 0, flight |-> {}, results |-> {}, limit |-> 0,
           done |-> FALSE, threw |-> FALSE, out |-> <<>>]

Init == InitApp /\ svc = NoCall

\* --------------------------------------------------------------- helpers

\* `${sectionId}-block-${i}` and `${sectionId}-fallback`: the section index and
\* the ordinal, -1 standing for "fallback".
BlockId(sec, j, fb) == IF fb THEN <<sec, -1>> ELSE <<sec, j>>

\* mutant: the report sets its own phase whatever the phase is
Overwrite(st, new) == new

\* Preserve PAUSED/PLAYING states during processing
Preserve(st, new) == IF st \in {"PAUSED", "PLAYING"} THEN st ELSE new

\* mutant: the section and those after it are marked
MarkProcessingFrom(secs, i) ==
    [k \in 1..Len(secs) |-> IF k >= i + 1 THEN [secs[k] EXCEPT !.status = "processing"]
                                          ELSE secs[k]]

\* prev.sections.map((s, idx) => idx === i ? {...s, status} : s); i is 0-based
MarkProcessing(secs, i) ==
    [k \in 1..Len(secs) |-> IF k = i + 1 THEN [secs[k] EXCEPT !.status = "processing"]
                                         ELSE secs[k]]

\* prev.sections.map((s, idx) => idx === i ? {...s, blocks, status: 'ready'} : s)
MarkReady(secs, i, blks) ==
    [k \in 1..Len(secs) |-> IF k = i + 1 THEN [status |-> "ready", blocks |-> blks]
                                         ELSE secs[k]]

\* initAudio: create the context on first use, resume it when suspended
InitAudio(st) == "running"

\* the for-loop's i++
NextSection(i) == i + 1

\* ------------------------------------------------------------ queueAudio

\* mutant: the lead-in is added to the clock on every enqueue
StartTimeLeadAlways(cursor, now) ==
    Max(IF cursor = Unset THEN now + LeadIn ELSE cursor, now + LeadIn)

\* mutant: the cursor is not consulted
StartTimeNoCursor(cursor, now) == now + LeadIn

\* if (nextStartTimeRef.current === 0) nextStartTimeRef.current = ctx.currentTime + 0.1;
\* const startTime = Math.max(nextStartTimeRef.current, ctx.currentTime);
StartTime(cursor, now) == Max(IF cursor = Unset THEN now + LeadIn ELSE cursor, now)

\* mutant: the rate is read from the state the closure captured
EnqueueRateSnapshot(ref, snapshot) == snapshot

\* source.playbackRate.value = playbackSpeedRef.current; ref is the ref's value,
\* snapshot the playbackSpeed of the render whose closure the run holds
EnqueueRate(ref, snapshot) == ref

\* mutant: the cursor advances by the duration at rate 1.0
CursorAfterUnscaled(start, dur, rate) == start + dur

\* nextStartTimeRef.current = startTime + block.audioBuffer.duration / playbackSpeedRef.current
CursorAfter(start, dur, rate) == start + (4 * dur) \div rate

\* Only set to PLAYING if not already paused (inside the cursor-unset branch)
StatusOnEnqueue(cursor, st) ==
    IF cursor = Unset THEN (IF st = "PAUSED" THEN st ELSE "PLAYING") ELSE st

\* mutant: the marker is set when the block is enqueued
TimerAtEnqueue(start, now) == 0

\* Math.max(0, timeToStart)
TimerDelay(start, now) == Max(0, start - now)

\* how the enqueue found the cursor: unset, ahead of the clock (or on it), passed
HowFound(cursor, now) ==
    IF cursor = Unset THEN "first" ELSE IF cursor >= now THEN "cursor" ELSE "late"

\* the entry pushed on audioQueueRef with the state of its source node; run tells
\* the sources of two documents apart (a source node is an object of its own).
\* how and tempo are history: how the enqueue found the cursor, and whether
\* setPlaybackSpeed has since left the rate as it was ("kept"), only ever raised
\* it ("raised") or lowered it at least once ("slowed")
NewSource(r, id, start, dur, rate) ==
    [run |-> r, id |-> id, start |-> start, dur |-> 4 * dur, pos |-> 0, rate |-> rate,
     how |-> HowFound(nextStartTime, CurrentTime), tempo |-> "kept"]

\* mutant: a block is queued whether or not it has audio
QueuesAlways(dur) == TRUE

\* if (!audioContextRef.current || !block.audioBuffer) return;
Queues(dur) == dur # 0 /\ ctxState # "none"

QueueAfter(r, id, dur, snap) ==
    IF Queues(dur)
    THEN Append(audioQueue,
                NewSource(r, id, StartTime(nextStartTime, CurrentTime), dur,
                          EnqueueRate(playbackSpeedRef, snap)))
    ELSE audioQueue

CursorAfterEnqueue(dur, snap) ==
    IF Queues(dur)
    THEN CursorAfter(StartTime(nextStartTime, CurrentTime), dur,
                     EnqueueRate(playbackSpeedRef, snap))
    ELSE nextStartTime

TimersAfter(r, id, dur) ==
    IF Queues(dur)
    THEN timers \cup {[run |-> r, id |-> id,
                       left |-> TimerDelay(StartTime(nextStartTime, CurrentTime), CurrentTime)]}
    ELSE timers

LastEnqAfter(dur, snap) ==
    IF Queues(dur)
    THEN StartTime(nextStartTime, CurrentTime) + (4 * dur) \div playbackSpeed
    ELSE lastEnd

StatusAfterEnqueue(dur) ==
    IF Queues(dur) THEN StatusOnEnqueue(nextStartTime, status) ELSE status

\* the source's onended handler: drop the source, clear the marker when the queue
\* is empty and the pipeline is COMPLETED
\* mutant: the handler empties the queue
WithoutAny(q, r, id) == <<>>

WithoutSource(q, r, id) == SelectSeq(q, LAMBDA it : ~(it.run = r /\ it.id = id))

MarkerAfterEnded(q, st, marker) ==
    IF Len(q) = 0 /\ st = "COMPLETED" THEN Null ELSE marker

\* a source that played to the end of its buffer
OnEnded(k) ==
    /\ k \in 1..Len(audioQueue)
    /\ audioQueue[k].pos = audioQueue[k].dur
    /\ audioQueue' = WithoutSource(audioQueue, audioQueue[k].run, audioQueue[k].id)
    /\ currentlyPlayingBlockId' =
           MarkerAfterEnded(audioQueue', status, currentlyPlayingBlockId)
    /\ UNCHANGED <<status, error, sections, playbackSpeed, showKeyInput, ctxState,
                   nextStartTime, allBlocks, playbackSpeedRef, timers, stopped, runs,
                   nruns, lastEnd, svc, prefetching, prefetches, keys>>

\* a source halted by source.stop(): its ended event is delivered all the same
OnEndedStopped(s) ==
    /\ s \in stopped
    /\ stopped' = stopped \ {s}
    /\ audioQueue' = WithoutSource(audioQueue, s.run, s.id)
    /\ currentlyPlayingBlockId' =
           MarkerAfterEnded(audioQueue', status, currentlyPlayingBlockId)
    /\ UNCHANGED <<status, error, sections, playbackSpeed, showKeyInput, ctxState,
                   nextStartTime, allBlocks, playbackSpeedRef, timers, runs, nruns,
                   lastEnd, svc, prefetching, prefetches, keys>>

\* the setTimeout callback of queueAudio
MarkerOnTimer(t, marker) == t.id

FireTimer(t) ==
    /\ t \in timers
    /\ t.left = 0
    /\ timers' = timers \ {t}
    /\ currentlyPlayingBlockId' = MarkerOnTimer(t, currentlyPlayingBlockId)
    /\ UNCHANGED <<status, error, sections, playbackSpeed, showKeyInput, ctxState,
                   audioQueue, nextStartTime, allBlocks, playbackSpeedRef, stopped, runs,
                   nruns, lastEnd, svc, prefetching, prefetches, keys>>

\* ------------------------------------------------------------- stopAudio
StoppedAfterStop ==
    stopped \cup {[run |-> audioQueue[k].run, id |-> audioQueue[k].id] :
                  k \in 1..Len(audioQueue)}

\* the timers stopAudio leaves pending (it clears none)
TimersAfterStop(ts) == ts

\* mutant: stopAudio leaves the cursor where it was
CursorKeptOnStop == nextStartTime

\* nextStartTimeRef.current = 0
CursorAfterStop == Unset

\* ------------------------------------------------------------------ reset
ResetEnabled == ~showKeyInput /\ status # "IDLE"

Reset ==
    /\ ResetEnabled
    /\ stopped' = StoppedAfterStop
    /\ audioQueue' = <<>>
    /\ nextStartTime' = CursorAfterStop
    /\ timers' = TimersAfterStop(timers)
    /\ lastEnd' = Unset
    /\ status' = "IDLE"
    /\ error' = "none"
    /\ sections' = <<>>
    /\ currentlyPlayingBlockId' = Null
    /\ UNCHANGED <<playbackSpeed, showKeyInput, ctxState, allBlocks,
                   playbackSpeedRef, runs, nruns, svc, prefetching, prefetches, keys>>

\* --------------------------------------------------------- togglePlayback
\* the button is disabled while state.sections.flatMap(s => s.blocks) is empty
ToggleEnabled ==
    /\ ~showKeyInput
    /\ status # "IDLE"
    /\ \E k \in 1..Len(sections) : Len(sections[k].blocks) > 0

\* mutant: a pause that is a no-op when already paused, and no resume
CtxPauseOnly(cs) == IF cs = "none" THEN cs ELSE "suspended"

CtxAfterToggle(cs) ==
    IF cs = "none" THEN cs ELSE IF cs = "running" THEN "suspended" ELSE "running"

StatusAfterToggle(cs, st) ==
    IF cs = "none" THEN st ELSE IF cs = "running" THEN "PAUSED" ELSE "PLAYING"

TogglePlayback ==
    /\ ToggleEnabled
    /\ ctxState' = CtxAfterToggle(ctxState)
    /\ status' = StatusAfterToggle(ctxState, status)
    /\ UNCHANGED <<error, sections, currentlyPlayingBlockId, playbackSpeed, showKeyInput,
                   audioQueue, nextStartTime, allBlocks, playbackSpeedRef, timers,
                   stopped, runs, nruns, lastEnd, svc, prefetching, prefetches, keys>>

\* -------------------------------------------------------- setPlaybackSpeed
SpeedEnabled == ~showKeyInput /\ status # "IDLE"

\* audioQueueRef.current.forEach(item => { item.source.playbackRate.value = speed; })
TempoAfter(it, speed) ==
    IF speed < it.rate THEN "slowed"
    ELSE IF speed > it.rate /\ it.tempo = "kept" THEN "raised" ELSE it.tempo

Retime(q, speed) ==
    [k \in 1..Len(q) |-> [q[k] EXCEPT !.rate = speed, !.tempo = TempoAfter(q[k], speed)]]

\* mutant: the cursor is recomputed from the last queued segment at the new rate
CursorRecomputed(cursor, q, speed) ==
    IF q = <<>> THEN cursor ELSE q[Len(q)].start + q[Len(q)].dur \div speed

\* setPlaybackSpeed leaves nextStartTimeRef alone
CursorOnSpeed(cursor, q, speed) == cursor

SetPlaybackSpeed(speed) ==
    /\ SpeedEnabled
    /\ playbackSpeedRef' = speed
    /\ playbackSpeed' = speed
    /\ audioQueue' = Retime(audioQueue, speed)
    /\ nextStartTime' = CursorOnSpeed(nextStartTime, audioQueue, speed)
    /\ UNCHANGED <<status, error, sections, currentlyPlayingBlockId, showKeyInput, ctxState,
                   allBlocks, timers, stopped, runs, nruns, lastEnd,
                   svc, prefetching, prefetches, keys>>

\* ------------------------------------------- services/geminiService.ts
\* What a collaborator call comes back with: fetch rejects (kind "network") or
\* resolves with an HTTP status; the message content of a 200 is not JSON
\* (json "invalid"), a JSON value that is no array and holds none ("object"),
\* or a JSON array of items.
Response(kind, st, json, items) ==
    [kind |-> kind, status |-> st, json |-> json, items |-> items]

\* response.ok
Ok(resp) == resp.kind = "http" /\ resp.status = 200

\* title.toLowerCase().includes('reference'), on the titles drawn here
ContainsReference(title) == title \in {"References", "Cross-Reference Model"}

\* the title of an item that has none: s.title is undefined
NoTitle == "undefined"

RawSection(title, a, b) == [title |-> title, pageStart |-> a, pageEnd |-> b]

\* what makes the try block of extractSections throw: fetch rejecting, !response.ok,
\* JSON.parse, sections.filter on a value that is no array, s.title.toLowerCase()
\* on undefined
ExtractThrows(resp) ==
    \/ ~Ok(resp)
    \/ resp.json # "array"
    \/ \E k \in 1..Len(resp.items) : resp.items[k].title = NoTitle

\* .filter(s => !s.title.toLowerCase().includes('reference'))
WithoutReferences(items) == SelectSeq(items, LAMBDA s : ~ContainsReference(s.title))

\* .map(s => ({ title, pageStart: Math.max(1, s.pageStart),
\*              pageEnd: Math.min(allPagesText.length, s.pageEnd) }))
Clamped(items, n) ==
    [k \in 1..Len(items) |->
        RawSection(items[k].title, Max(1, items[k].pageStart), Min(n, items[k].pageEnd))]

\* mutant: the catch block returns no section
NoFallbackSection(n) == <<>>

\* catch (e): [{ title: "Full Paper", pageStart: 1, pageEnd: allPagesText.length }]
FallbackSection(n) == <<RawSection("Full Paper", 1, n)>>

\* the answers drawn for a call of the pipeline: the ways to fail, and arrays of
\* up to maxn sections of one page each
PlainItems(n) == [k \in 1..n |-> RawSection("Methods", k, k)]

Responses(maxn) ==
    {Response("network", 0, "invalid", <<>>), Response("http", 401, "invalid", <<>>),
     Response("http", 500, "invalid", <<>>), Response("http", 200, "invalid", <<>>)}
    \cup {Response("http", 200, "array", PlainItems(n)) : n \in 0..maxn}

\* extractSections(openRouterApiKey, allPagesText) for a document of n pages
ExtractSections(resp, n) ==
    IF ExtractThrows(resp) THEN FallbackSection(n)
    ELSE Clamped(WithoutReferences(resp.items), n)

\* the arrays of up to MaxItems items an answer may hold for a document of n
\* pages: any title, page numbers from 0 to n + 1
ItemTitles == {"Methods", "References"}

Items(n) == {RawSection(t, a, b) : t \in ItemTitles, a \in 0..(n + 1), b \in 0..(n + 1)}

RECURSIVE Lists(_, _)
Lists(S, len) ==
    IF len = 0 THEN {<<>>}
    ELSE Lists(S, len - 1) \cup {Append(l, x) : l \in Lists(S, len - 1), x \in S}

\* the answers drawn for a call of extractSections taken by itself
ExtractAnswers(n) ==
    {Response("network", 0, "invalid", <<>>), Response("http", 401, "invalid", <<>>),
     Response("http", 500, "invalid", <<>>), Response("http", 200, "invalid", <<>>),
     Response("http", 200, "object", <<>>),
     Response("http", 200, "array", <<RawSection(NoTitle, 1, n)>>)}
    \cup {Response("http", 200, "array", l) : l \in Lists(Items(n), MaxItems)}

ExtractCalls ==
    {[NoCall EXCEPT !.fn = "extractSections", !.pages = n, !.resp = resp] :
        n \in 1..MaxPages, resp \in UNION {ExtractAnswers(m) : m \in 1..MaxPages}}

\* extractSections returns
ExtractSectionsReturns ==
    /\ svc.fn = "extractSections"
    /\ ~svc.done
    /\ svc' = [svc EXCEPT !.done = TRUE, !.out = ExtractSections(svc.resp, svc.pages)]
    /\ UNCHANGED app

\* Text is a sequence of tokens: a word ("w"), a white-space character ("sp"), a
\* citation such as (Smith et al., 2023) taken as a whole ("cite"), and the
\* characters of which numbered citations, line numbers and footnote marks are
\* made: a digit ("d"), the brackets "[" and "]", the asterisk "*".
Tokens == {"w", "cite", "sp"}

Marks == {"d", "[", "]", "*"}

\* the number of characters c at the head of t
LeadingRun(t, c) == Cardinality({n \in 1..Len(t) : \A i \in 1..n : t[i] = c})

Drop(t, n) == SubSeq(t, n + 1, Len(t))

\* the length of the match of /\[\d+(?:[-,]\s*\d+)*\]/ at the head of t, 0 for none
CitationAt(t) ==
    IF Len(t) >= 3 /\ t[1] = "["
    THEN LET n == LeadingRun(Tail(t), "d")
         IN  IF n > 0 /\ Len(t) >= n + 2 /\ t[n + 2] = "]" THEN n + 2 ELSE 0
    ELSE 0

\* .replace(/\[\d+(?:[-,]\s*\d+)*\]/g, ''): every match is removed (a match
\* holds one "[", so no two overlap)
WithoutNumbered(t) ==
    LET InMatch(i) == \E a \in 1..i : CitationAt(Drop(t, a - 1)) > i - a
        kept == SelectSeq([i \in 1..Len(t) |-> <<i, t[i]>>], LAMBDA p : ~InMatch(p[1]))
    IN  [i \in 1..Len(kept) |-> kept[i][2]]

\* the inline citations: the numbered ones, then .replace(/\([A-Z][a-z]+(?:\s+et\s+al
\* \.?)?,?\s*\d{4}\)/g, '') and .replace(/\([A-Z][a-z]+\s+and\s+[A-Z][a-z]+,?\s*\d{4}\)/g, '')
WithoutCitations(t) == SelectSeq(WithoutNumbered(t), LAMBDA x : x # "cite")

\* the length of the match of /(\d{3}\s+)/ at the head of t, 0 for none
LineNumberAt(t) ==
    IF LeadingRun(t, "d") = 3 /\ LeadingRun(Drop(t, 3), "sp") > 0
    THEN 3 + LeadingRun(Drop(t, 3), "sp")
    ELSE 0

\* .replace(/^(\d{3}\s+)+/gm, ''); the text of the model is one line.  The two
\* replacements after it ask for more than the texts drawn hold: two numbers of
\* three digits, a capital letter
RECURSIVE WithoutLineNumbers(_)
WithoutLineNumbers(t) ==
    IF LineNumberAt(t) > 0 THEN WithoutLineNumbers(Drop(t, LineNumberAt(t))) ELSE t

\* .replace(/[*\u2020\u2021\u00a7\u00b6]\d*/g, ''): a footnote mark and the digits after it
WithoutFootnotes(t) ==
    LET InMatch(i) == \E a \in 1..i : t[a] = "*" /\ \A m \in (a + 1)..i : t[m] = "d"
        kept == SelectSeq([i \in 1..Len(t) |-> <<i, t[i]>>], LAMBDA p : ~InMatch(p[1]))
    IN  [i \in 1..Len(kept) |-> kept[i][2]]

\* .replace(/\s+/g, ' ')
RECURSIVE Collapsed(_)
Collapsed(t) ==
    IF Len(t) < 2 THEN t
    ELSE IF t[1] = "sp" /\ t[2] = "sp" THEN Collapsed(Tail(t))
    ELSE <<t[1]>> \o Collapsed(Tail(t))

\* .trim()
RECURSIVE Trimmed(_)
Trimmed(t) ==
    IF Len(t) = 0 THEN t
    ELSE IF t[1] = "sp" THEN Trimmed(Tail(t))
    ELSE IF t[Len(t)] = "sp" THEN Trimmed(SubSeq(t, 1, Len(t) - 1))
    ELSE t

\* mutant: the text is passed on as it is
RawText(t) == t

\* cleanTextForTTS(text)
\* each replacement is applied to the value the one before it returned
CleanTextForTTS(t) ==
    CHOOSE out \in
        {Trimmed(e) : e \in
            {Collapsed(d) : d \in
                {WithoutFootnotes(c) : c \in
                    {WithoutLineNumbers(b) : b \in
                        {WithoutCitations(a) : a \in {t}}}}}} : TRUE

\* pagesText.join(' ')
RECURSIVE Joined(_)
Joined(pages) ==
    IF Len(pages) = 0 THEN <<>>
    ELSE IF Len(pages) = 1 THEN pages[1]
    ELSE pages[1] \o <<"sp">> \o Joined(Tail(pages))

Block(id, type, content, sec) ==
    [id |-> id, type |-> type, content |-> content, sectionId |-> sec]

\* if (response.status === 401 || response.status === 403) throw new Error('INVALID_KEY')
ProcessRejects(resp) == resp.kind = "http" /\ resp.status \in {401, 403}

\* what else makes the try block of processSectionText throw: fetch rejecting,
\* !response.ok, JSON.parse, rawBlocks.map on a value that is no array
ProcessThrows(resp) == ~Ok(resp) \/ resp.json # "array"

\* mutant: the catch block returns no block
NoFallbackBlock(sec, pagesText) == <<>>

\* catch (e): [{ id: `${sectionId}-fallback`, type: BlockType.TEXT,
\*              content: cleanTextForTTS(pagesText.join(' ')), sectionId }]
FallbackBlock(sec, pagesText) ==
    <<Block(BlockId(sec, 0, TRUE), "text", CleanTextForTTS(Joined(pagesText)), sec)>>

\* rawBlocks.map((b, i) => ({ id: `${sectionId}-block-${i}`, type: b.type,
\*                            content: cleanTextForTTS(b.content), sectionId }))
BlocksOf(items, sec) ==
    [k \in 1..Len(items) |->
        Block(BlockId(sec, k - 1, FALSE), items[k].type, CleanTextForTTS(items[k].content),
              sec)]

\* processSectionText(openRouterApiKey, sectionTitle, sectionId, pagesText): whether
\* it rejects with INVALID_KEY, and the blocks it resolves with otherwise
ProcessSectionText(resp, sec, pagesText) ==
    [threw |-> ProcessRejects(resp),
     blocks |-> IF ProcessRejects(resp) THEN <<>>
                ELSE IF ProcessThrows(resp) THEN FallbackBlock(sec, pagesText)
                ELSE BlocksOf(resp.items, sec)]

\* the items of the array an LLM answers with: a type and a content
RawBlock(type, content) == [type |-> type, content |-> content]

\* the texts drawn: up to MaxTokens tokens
Texts == Lists(Tokens, MaxTokens)

BlockItems == {RawBlock(ty, c) : ty \in {"text", "description"}, c \in {<<"w">>, <<"w", "cite">>}}

\* the answers drawn for a call of processSectionText taken by itself
ProcessFailures ==
    {Response("network", 0, "invalid", <<>>), Response("http", 401, "invalid", <<>>),
     Response("http", 403, "invalid", <<>>), Response("http", 500, "invalid", <<>>),
     Response("http", 200, "invalid", <<>>), Response("http", 200, "object", <<>>)}

ProcessCalls ==
    {[NoCall EXCEPT !.fn = "processSectionText", !.sec = sec, !.text = pages, !.resp = resp] :
        sec \in 0..1, pages \in Lists(Texts, 2),
        resp \in ProcessFailures
                 \cup {Response("http", 200, "array", l) : l \in Lists(BlockItems, MaxItems)}}

\* processSectionText returns
ProcessSectionTextReturns ==
    /\ svc.fn = "processSectionText"
    /\ ~svc.done
    /\ LET res == ProcessSectionText(svc.resp, svc.sec, svc.text)
       IN  svc' = [svc EXCEPT !.done = TRUE, !.threw = res.threw, !.out = res.blocks]
    /\ UNCHANGED app

\* the calls of cleanTextForTTS taken by itself: the texts of up to MaxCleanLen
\* words, blanks and marks (an absent text is the empty one: if (!text) return '')
CleanCalls ==
    {[NoCall EXCEPT !.fn = "cleanTextForTTS", !.text = t] :
        t \in Lists({"w", "sp"} \cup Marks, MaxCleanLen)}

\* cleanTextForTTS returns
CleanTextForTTSReturns ==
    /\ svc.fn = "cleanTextForTTS"
    /\ ~svc.done
    /\ svc' = [svc EXCEPT !.done = TRUE, !.out = CleanTextForTTS(svc.text)]
    /\ UNCHANGED app

\* The text handed to the synthesizer is a sequence of characters: a letter ("w"),
\* a full stop ("dot"), a white-space character ("sp").
Chars == {"w", "dot", "sp"}

\* remaining.lastIndexOf(' ', maxLength), counted from 0; -1 when there is none
LastIndexOfSpace(t, max) ==
    LET at == {k \in 0..Min(max, Len(t) - 1) : t[k + 1] = "sp"}
    IN  IF at = {} THEN -1 ELSE CHOOSE k \in at : \A m \in at : m <= k

\* remaining.lastIndexOf('. ', maxLength)
LastIndexOfStop(t, max) ==
    LET at == {k \in 0..Min(max, Len(t) - 2) : t[k + 1] = "dot" /\ t[k + 2] = "sp"}
    IN  IF at = {} THEN -1 ELSE CHOOSE k \in at : \A m \in at : m <= k

\* the breakPoint of chunkText
BreakPoint(t, max) ==
    LET stop == LastIndexOfStop(t, max)
        bp == IF stop = -1 \/ 2 * stop < max THEN LastIndexOfSpace(t, max) ELSE stop
    IN  IF bp = -1 THEN max ELSE bp

\* chunkText(text, maxLength)
RECURSIVE ChunkText(_, _)
ChunkText(t, max) ==
    IF Len(t) = 0 THEN <<>>
    ELSE IF Len(t) <= max THEN <<t>>
    ELSE LET bp == BreakPoint(t, max)
         IN  <<Trimmed(SubSeq(t, 1, bp + 1))>>
             \o ChunkText(Trimmed(SubSeq(t, bp + 2, Len(t))), max)

\* the calls of chunkText taken by itself: the texts of up to MaxChars characters,
\* the limits up to ChunkLimit
ChunkCalls ==
    {[NoCall EXCEPT !.fn = "chunkText", !.text = t, !.limit = m] :
        t \in Lists(Chars, MaxChars), m \in 1..ChunkLimit}

\* chunkText returns
ChunkTextReturns ==
    /\ svc.fn = "chunkText"
    /\ ~svc.done
    /\ svc' = [svc EXCEPT !.done = TRUE, !.out = ChunkText(svc.text, svc.limit)]
    /\ UNCHANGED app

\* What the provider answers to the request made for one chunk: audio that decodes,
\* audio that does not decode, a status other than 2xx, or no answer at all.
ChunkAnswers == {"audio", "undecodable", "http401", "http403", "http500", "network"}

\* fetchAndDecodeAudio: throw new Error('INVALID_KEY')
FetchRejects(a) == a \in {"http401", "http403"}

\* fetchAndDecodeAudio throws: INVALID_KEY, fetch rejecting, decodeAudioData rejecting
FetchThrows(a) == FetchRejects(a) \/ a \in {"network", "undecodable"}

\* fetchAndDecodeAudio resolves with a buffer
FetchDecodes(a) == a = "audio"

\* an AudioBuffer, by the chunks of text that sound in it; null
AudioBuffer(parts) == [isNull |-> FALSE, parts |-> parts]

NoBuffer == [isNull |-> TRUE, parts |-> <<>>]

\* the requests generateAudio makes before it returns: those up to the first that throws
Requested(n, ans) ==
    LET thrown == {k \in 1..n : FetchThrows(ans[k])}
    IN  IF thrown = {} THEN 1..n ELSE 1..(CHOOSE k \in thrown : \A m \in thrown : k <= m)

\* for (const chunk of textChunks) { ...; if (buffer) audioBuffers.push(buffer) }
RECURSIVE Decoded(_, _)
Decoded(chunks, ans) ==
    IF Len(chunks) = 0 THEN <<>>
    ELSE (IF FetchDecodes(ans[1]) THEN <<chunks[1]>> ELSE <<>>)
         \o Decoded(Tail(chunks), Tail(ans))

\* generateAudio(deepgramApiKey, text, audioCtx, voiceName) when the provider answers
\* ans[k] to the request for chunk k: whether it rejects with INVALID_KEY, and the
\* buffer it resolves with otherwise
GenerateAudio(text, ans) ==
    LET chunks == ChunkText(text, ChunkLimit)
        n == Len(chunks)
        asked == Requested(n, ans)
        thrown == {k \in asked : FetchThrows(ans[k])}
        parts == Decoded(chunks, SubSeq(ans, 1, n))
    IN  IF \E k \in thrown : FetchRejects(ans[k])
        THEN [threw |-> TRUE, buffer |-> NoBuffer]
        ELSE IF thrown # {} THEN [threw |-> FALSE, buffer |-> NoBuffer]
        ELSE IF n = 1
        THEN [threw |-> FALSE,
              buffer |-> IF FetchDecodes(ans[1]) THEN AudioBuffer(chunks) ELSE NoBuffer]
        ELSE IF Len(parts) = 0 THEN [threw |-> FALSE, buffer |-> NoBuffer]
        ELSE [threw |-> FALSE, buffer |-> AudioBuffer(parts)]

\* the calls of generateAudio taken by itself
AudioCalls ==
    {[NoCall EXCEPT !.fn = "generateAudio", !.text = t, !.ans = a] :
        t \in Lists(Chars, MaxChars), a \in [1..MaxChars -> ChunkAnswers]}

\* generateAudio returns
GenerateAudioReturns ==
    /\ svc.fn = "generateAudio"
    /\ ~svc.done
    /\ LET res == GenerateAudio(svc.text, svc.ans)
       IN  svc' = [svc EXCEPT !.done = TRUE, !.threw = res.threw, !.out = res.buffer]
    /\ UNCHANGED app

\* generateAudioBatch(deepgramApiKey, blocks, audioCtx, voiceName).  blocks[b] tells
\* whether block b has a content and an id; flight holds the blocks whose
\* generateAudio is awaited, results the keys of the Map, i the loop variable.

\* mutant: all the blocks that are left are started together
RestOfBlocks(i, n) == (i + 1)..n

\* blocks.slice(i, i + CONCURRENCY), as positions counted from 1
Batch(i, n) == (i + 1)..Min(i + Concurrency, n)

\* const promises = batch.map(async (block) => { if (!block.content || !block.id)
\* return; const buffer = await generateAudio(...); ... }): an iteration of the for
\* loop begins, the previous await Promise.all(promises) having resolved
BatchStarts ==
    /\ svc.fn = "generateAudioBatch"
    /\ ~svc.done
    /\ svc.flight = {}
    /\ svc.i < Len(svc.blocks)
    /\ svc' = [svc EXCEPT
                  !.flight = {b \in Batch(svc.i, Len(svc.blocks)) : svc.blocks[b]},
                  !.i = svc.i + Concurrency]
    /\ UNCHANGED app

\* generateAudio resolved for block b (with a buffer or null): results.set(block.id, buffer)
BlockSettles(b) ==
    /\ svc.fn = "generateAudioBatch"
    /\ b \in svc.flight
    /\ svc' = [svc EXCEPT !.flight = svc.flight \ {b}, !.results = svc.results \cup {b}]
    /\ UNCHANGED app

\* generateAudio rejected for block b (INVALID_KEY): Promise.all rejects and so does
\* generateAudioBatch, while the other calls of the batch go on
BlockRejects(b) ==
    /\ svc.fn = "generateAudioBatch"
    /\ b \in svc.flight
    /\ svc' = [svc EXCEPT !.flight = svc.flight \ {b}, !.done = TRUE, !.threw = TRUE]
    /\ UNCHANGED app

\* the loop is over: return results
BatchReturns ==
    /\ svc.fn = "generateAudioBatch"
    /\ ~svc.done
    /\ svc.flight = {}
    /\ svc.i >= Len(svc.blocks)
    /\ svc' = [svc EXCEPT !.done = TRUE]
    /\ UNCHANGED app

\* the calls of generateAudioBatch taken by itself: up to MaxBatchBlocks blocks
BatchCalls ==
    {[NoCall EXCEPT !.fn = "generateAudioBatch", !.blocks = l] :
        l \in Lists(BOOLEAN, MaxBatchBlocks)}

\* ------------------------------------------------- other controls of the UI
\* mutant: the upload input is offered in every phase
UploadAnyPhase == ~showKeyInput

\* the upload input is rendered when state.status === IDLE, behind the key screen
UploadEnabled == ~showKeyInput /\ status = "IDLE"

\* file.type !== 'application/pdf'
UploadNonPdf ==
    /\ UploadEnabled
    /\ error' = "pdf"
    /\ UNCHANGED <<status, sections, currentlyPlayingBlockId, playbackSpeed, showKeyInput,
                   ctxState, audioQueue, nextStartTime, allBlocks,
                   playbackSpeedRef, timers, stopped, runs, nruns, lastEnd,
                   svc, prefetching, prefetches, keys>>

\* the Dismiss button of the error banner
DismissError ==
    /\ ~showKeyInput
    /\ error # "none"
    /\ error' = "none"
    /\ UNCHANGED <<status, sections, currentlyPlayingBlockId, playbackSpeed, showKeyInput,
                   ctxState, audioQueue, nextStartTime, allBlocks,
                   playbackSpeedRef, timers, stopped, runs, nruns, lastEnd,
                   svc, prefetching, prefetches, keys>>

\* what can be typed into a field of the settings panel
KeyFields == Lists({"k", "sp"}, MaxKeyLen)

\* onChange of the two inputs of the settings panel
SetTempOpenRouterKey(v) ==
    /\ showKeyInput
    /\ keys' = [keys EXCEPT !.tempOpenRouterKey = v]
    /\ UNCHANGED <<status, error, sections, currentlyPlayingBlockId, playbackSpeed,
                   showKeyInput, ctxState, audioQueue, nextStartTime, allBlocks,
                   playbackSpeedRef, timers, stopped, runs, nruns, lastEnd,
                   svc, prefetching, prefetches>>

SetTempDeepgramKey(v) ==
    /\ showKeyInput
    /\ keys' = [keys EXCEPT !.tempDeepgramKey = v]
    /\ UNCHANGED <<status, error, sections, currentlyPlayingBlockId, playbackSpeed,
                   showKeyInput, ctxState, audioQueue, nextStartTime, allBlocks,
                   playbackSpeedRef, timers, stopped, runs, nruns, lastEnd,
                   svc, prefetching, prefetches>>

\* mutant: the first key is saved when it alone is filled in
FirstFilled(ks) == Trimmed(ks.tempOpenRouterKey) # <<>>

\* tempOpenRouterKey.trim() && tempDeepgramKey.trim()
BothFilled(ks) == Trimmed(ks.tempOpenRouterKey) # <<>> /\ Trimmed(ks.tempDeepgramKey) # <<>>

\* the four assignments of handleSaveKey
KeysAfterSave(ks) ==
    [ks EXCEPT !.openrouter_api_key = Trimmed(ks.tempOpenRouterKey),
               !.deepgram_api_key = Trimmed(ks.tempDeepgramKey),
               !.openRouterKey = Trimmed(ks.tempOpenRouterKey),
               !.deepgramKey = Trimmed(ks.tempDeepgramKey)]

\* handleSaveKey: nothing happens unless both fields are filled in
HandleSaveKey ==
    /\ showKeyInput
    /\ IF BothFilled(keys)
       THEN /\ keys' = KeysAfterSave(keys)
            /\ showKeyInput' = FALSE
            /\ error' = "none"
       ELSE UNCHANGED <<keys, showKeyInput, error>>
    /\ UNCHANGED <<status, sections, currentlyPlayingBlockId, playbackSpeed, ctxState,
                   audioQueue, nextStartTime, allBlocks, playbackSpeedRef, timers,
                   stopped, runs, nruns, lastEnd, svc, prefetching, prefetches>>

\* the six assignments of handleClearKey before reset()
KeysAfterClear(ks) == NoKeys

\* handleClearKey: the keys are removed, the panel is shown, then reset()
HandleClearKey ==
    /\ keys' = KeysAfterClear(keys)
    /\ showKeyInput' = TRUE
    /\ stopped' = StoppedAfterStop
    /\ audioQueue' = <<>>
    /\ nextStartTime' = CursorAfterStop
    /\ timers' = TimersAfterStop(timers)
    /\ lastEnd' = Unset
    /\ status' = "IDLE"
    /\ error' = "none"
    /\ sections' = <<>>
    /\ currentlyPlayingBlockId' = Null
    /\ UNCHANGED <<playbackSpeed, ctxState, allBlocks, playbackSpeedRef, runs, nruns,
                   svc, prefetching, prefetches>>

OpenSettings ==
    /\ ~showKeyInput
    /\ showKeyInput' = TRUE
    /\ UNCHANGED <<status, error, sections, currentlyPlayingBlockId, playbackSpeed,
                   ctxState, audioQueue, nextStartTime, allBlocks,
                   playbackSpeedRef, timers, stopped, runs, nruns, lastEnd,
                   svc, prefetching, prefetches, keys>>

\* ------------------------------------------------------- handleFileUpload
\* the synchronous head of the handler, up to await parsePdf; stopAudio is not
\* called
QueueOnUpload(q) == q

\* prefetchingRef.current = false
FlagOnUpload(flag) == FALSE

HandleFileUpload ==
    /\ UploadEnabled
    /\ nruns < MaxRuns
    /\ nruns' = nruns + 1
    /\ status' = "PARSING_PDF"
    /\ error' = "none"
    /\ sections' = <<>>
    /\ currentlyPlayingBlockId' = Null
    /\ allBlocks' = <<>>
    /\ nextStartTime' = Unset
    /\ prefetching' = FlagOnUpload(prefetching)
    /\ audioQueue' = QueueOnUpload(audioQueue)
    /\ runs' = [runs EXCEPT ![nruns + 1] =
                    [NoRun EXCEPT !.pc = "parsing", !.speed0 = playbackSpeed]]
    /\ UNCHANGED <<playbackSpeed, showKeyInput, ctxState, playbackSpeedRef,
                   timers, stopped, lastEnd, svc, prefetches, keys>>

\* parsePdf resolved: totalPages, EXTRACTING_SECTIONS, initAudio(), await extractSections
ParseDone(r) ==
    /\ runs[r].pc = "parsing"
    /\ status' = "EXTRACTING_SECTIONS"
    /\ ctxState' = InitAudio(ctxState)
    /\ runs' = [runs EXCEPT ![r].pc = "extracting"]
    /\ UNCHANGED <<error, sections, currentlyPlayingBlockId, playbackSpeed, showKeyInput,
                   audioQueue, nextStartTime, allBlocks, playbackSpeedRef, timers,
                   stopped, nruns, lastEnd, svc, prefetching, prefetches, keys>>

\* mutant: the key prompt is not opened
PromptLeftOnError(msg, shown) == shown

\* if (err.message === "INVALID_KEY") { ...; setShowKeyInput(true) }
PromptOnError(msg, shown) == IF msg = "INVALID_KEY" THEN TRUE ELSE shown

\* mutant: every failure is shown as an unexpected error
UnexpectedErrorText(msg) == "unexpected"

\* the text shown for err.message: "key" is the check-your-key message
ErrorText(msg) == IF msg = "INVALID_KEY" THEN "key" ELSE msg

\* parsePdf threw "Failed to parse PDF. ...": the catch block's else branch
ParseFail(r) ==
    /\ runs[r].pc = "parsing"
    /\ status' = "ERROR"
    /\ error' = ErrorText("parse")
    /\ showKeyInput' = PromptOnError("parse", showKeyInput)
    /\ runs' = [runs EXCEPT ![r] = DoneRun]
    /\ UNCHANGED <<sections, currentlyPlayingBlockId, playbackSpeed, ctxState,
                   audioQueue, nextStartTime, allBlocks, playbackSpeedRef, timers,
                   stopped, nruns, lastEnd, svc, prefetching, prefetches, keys>>

\* rawSections.map(...): n sections, all pending, without blocks
PendingSections(n) == [k \in 1..n |-> [status |-> "pending", blocks |-> <<>>]]

\* extractSections resolved with the sections secs (its own fallback gives one);
\* the loop is entered for section 0, or left at once when there is none
ExtractDone(r, secs) ==
    /\ runs[r].pc = "extracting"
    /\ IF Len(secs) = 0
       THEN /\ sections' = PendingSections(0)
            /\ status' = "COMPLETED"
            /\ runs' = [runs EXCEPT ![r] = DoneRun]
       ELSE /\ sections' = MarkProcessing(PendingSections(Len(secs)), 0)
            /\ status' = "PROCESSING_SECTION"
            /\ runs' = [runs EXCEPT ![r].pc = "processing", ![r].secs = secs,
                                    ![r].nsec = Len(secs), ![r].i = 0]
    /\ UNCHANGED <<error, currentlyPlayingBlockId, playbackSpeed, showKeyInput, ctxState,
                   audioQueue, nextStartTime, allBlocks, playbackSpeedRef, timers,
                   stopped, nruns, lastEnd, svc, prefetching, prefetches, keys>>

\* catch (err): err.message === "INVALID_KEY"
InvalidKey(r) ==
    /\ status' = "ERROR"
    /\ error' = ErrorText("INVALID_KEY")
    /\ showKeyInput' = PromptOnError("INVALID_KEY", showKeyInput)
    /\ runs' = [runs EXCEPT ![r] = DoneRun]
    /\ UNCHANGED <<sections, currentlyPlayingBlockId, playbackSpeed, ctxState,
                   audioQueue, nextStartTime, allBlocks, playbackSpeedRef, timers, stopped,
                   nruns, lastEnd, svc, prefetching, prefetches, keys>>

\* processSectionText rejected with INVALID_KEY (401/403)
ProcessInvalidKey(r) ==
    /\ runs[r].pc = "processing"
    /\ InvalidKey(r)

\* the end of the loop body for section i and what follows it: the section is
\* marked ready with its blocks, then the next section is entered or the run
\* completes.  st is the status before the update.
SectionsAfterSection(run, secs, blks) ==
    IF NextSection(run.i) < run.nsec
    THEN MarkProcessing(MarkReady(secs, run.i, blks), NextSection(run.i))
    ELSE MarkReady(secs, run.i, blks)

\* mutant: the end of the loop is not reported
StatusNeverCompleted(run, st) == Preserve(st, "PROCESSING_SECTION")

StatusAfterSection(run, st) ==
    IF NextSection(run.i) < run.nsec
    THEN Preserve(st, "PROCESSING_SECTION")
    ELSE "COMPLETED"

RunAfterSection(run) ==
    IF NextSection(run.i) < run.nsec
    THEN [run EXCEPT !.pc = "processing", !.i = NextSection(run.i), !.nblk = 0,
                     !.fb = FALSE, !.j = 0, !.full = <<>>]
    ELSE DoneRun

\* processSectionText resolved with k blocks, or (fb) with its one fallback block
ProcessDone(r, k, fb) ==
    /\ runs[r].pc = "processing"
    /\ fb => k = 1
    /\ IF k = 0
       THEN /\ sections' = SectionsAfterSection(runs[r], sections, <<>>)
            /\ status' = StatusAfterSection(runs[r], Preserve(status, "GENERATING_VOICE"))
            /\ runs' = [runs EXCEPT ![r] = RunAfterSection(runs[r])]
       ELSE /\ sections' = sections
            /\ status' = Preserve(status, "GENERATING_VOICE")
            /\ runs' = [runs EXCEPT ![r].pc = "synth", ![r].nblk = k, ![r].fb = fb,
                                    ![r].j = 0, ![r].full = <<>>]
    /\ UNCHANGED <<error, currentlyPlayingBlockId, playbackSpeed, showKeyInput, ctxState,
                   audioQueue, nextStartTime, allBlocks, playbackSpeedRef, timers,
                   stopped, nruns, lastEnd, svc, prefetching, prefetches, keys>>

\* the text of page p of the document, as parsePdf returned it
PageText(p) ==
    IF p % 3 = 1 THEN <<"sp", "w", "cite", "sp">>
    ELSE IF p % 3 = 2 THEN <<"w", "sp", "sp", "w">>
    ELSE <<"cite", "w">>

\* pagesTextRef.current.slice(section.pageStart - 1, section.pageEnd)
SectionPages(sec) ==
    [k \in 1..Max(0, sec.pageEnd - sec.pageStart + 1) |-> PageText(sec.pageStart + k - 1)]

\* the answers drawn for processSectionText in the pipeline: the ways to fail, and
\* arrays of up to maxn blocks
PlainBlocks(n) == [k \in 1..n |-> RawBlock("text", <<"w">>)]

ProcessAnswers(maxn) ==
    ProcessFailures \cup {Response("http", 200, "array", PlainBlocks(n)) : n \in 0..maxn}

\* blocks is the one block of the catch
IsFallback(blocks) == Len(blocks) = 1 /\ blocks[1].id = BlockId(blocks[1].sectionId, 0, TRUE)

\* await processSectionText(openRouterKey, section.title, section.id, sectionPages)
\* when the network answers resp
ProcessReturns(r, resp) ==
    /\ runs[r].pc = "processing"
    /\ LET run == runs[r]
           res == ProcessSectionText(resp, run.i, SectionPages(run.secs[run.i + 1]))
       IN  IF res.threw THEN ProcessInvalidKey(r)
           ELSE ProcessDone(r, Len(res.blocks), IsFallback(res.blocks))

\* generateAudio rejected with INVALID_KEY
SynthInvalidKey(r) ==
    /\ runs[r].pc = "synth"
    /\ InvalidKey(r)

\* { ...blockData, audioBuffer: buffer }; audio is the buffer's duration, 0 for null
FullBlock(r, id, dur) == [run |-> r, id |-> id, audio |-> dur]

\* generateAudio resolved for block j of section i with a buffer of duration dur,
\* or with null (dur = 0): push the block, queueAudio it, go on with the next block
\* or finish the section
SynthDone(r, dur) ==
    /\ runs[r].pc = "synth"
    /\ LET run == runs[r]
           id == BlockId(run.i, run.j, run.fb)
           blk == FullBlock(r, id, dur)
           full == Append(run.full, blk)
           last == run.j + 1 >= run.nblk
       IN  /\ allBlocks' = Append(allBlocks, blk)
           /\ audioQueue' = QueueAfter(r, id, dur, run.speed0)
           /\ nextStartTime' = CursorAfterEnqueue(dur, run.speed0)
           /\ timers' = TimersAfter(r, id, dur)
           /\ lastEnd' = LastEnqAfter(dur, run.speed0)
           /\ IF last
              THEN /\ sections' = SectionsAfterSection(run, sections, full)
                   /\ status' = StatusAfterSection(run, StatusAfterEnqueue(dur))
                   /\ runs' = [runs EXCEPT ![r] = RunAfterSection(run)]
              ELSE /\ sections' = sections
                   /\ status' = StatusAfterEnqueue(dur)
                   /\ runs' = [runs EXCEPT ![r].j = run.j + 1, ![r].full = full]
    /\ UNCHANGED <<error, currentlyPlayingBlockId, playbackSpeed, showKeyInput, ctxState,
                   playbackSpeedRef, stopped, nruns, svc, prefetching, prefetches, keys>>

\* ---------------------------------------------------- prefetchNextSection
\* The component defines prefetchNextSection and calls it nowhere; the actions
\* below are the function as a caller inside the component would run it.
PrefetchFrame ==
    UNCHANGED <<status, error, currentlyPlayingBlockId, playbackSpeed, showKeyInput,
                ctxState, audioQueue, nextStartTime, playbackSpeedRef, timers, stopped,
                runs, nruns, lastEnd, svc, keys>>

\* the two early returns: if (prefetchingRef.current || sectionIndex >=
\* state.sections.length) return; if (section.status !== 'pending') return
PassesGuard(k) ==
    /\ ~prefetching
    /\ k < Len(sections)
    /\ sections[k + 1].status = "pending"

\* a call prefetchNextSection(k), up to await processSectionText; p is the
\* execution it becomes when it passes the guard
PrefetchNextSection(k, p) ==
    /\ prefetches[p].pc = "none"
    /\ IF PassesGuard(k)
       THEN /\ prefetching' = TRUE
            /\ sections' = MarkProcessing(sections, k)
            /\ prefetches' = [prefetches EXCEPT ![p] = [pc |-> "text", sec |-> k, nblk |-> 0]]
            /\ allBlocks' = allBlocks
       ELSE UNCHANGED <<prefetching, sections, prefetches, allBlocks>>
    /\ PrefetchFrame

\* processSectionText resolved with n blocks: await generateAudioBatch
PrefetchTextDone(p, n) ==
    /\ prefetches[p].pc = "text"
    /\ prefetches' = [prefetches EXCEPT ![p].pc = "audio", ![p].nblk = n]
    /\ UNCHANGED <<prefetching, sections, allBlocks>>
    /\ PrefetchFrame

\* blocks.map(b => ({...b, audioBuffer: audioMap.get(b.id) || null}))
PrefetchedBlocks(sec, n, dur) == [j \in 1..n |-> FullBlock(0, BlockId(sec, j - 1, FALSE), dur)]

\* generateAudioBatch resolved: the section is marked ready with its blocks, the
\* blocks are pushed on allBlocksRef; finally prefetchingRef.current = false
PrefetchAudioDone(p, dur) ==
    /\ prefetches[p].pc = "audio"
    /\ LET full == PrefetchedBlocks(prefetches[p].sec, prefetches[p].nblk, dur)
       IN  /\ sections' = MarkReady(sections, prefetches[p].sec, full)
           /\ allBlocks' = allBlocks \o full
    /\ prefetching' = FALSE
    /\ prefetches' = [prefetches EXCEPT ![p] = NoPrefetch]
    /\ PrefetchFrame

\* either await rejected (INVALID_KEY): console.error; finally prefetchingRef.current = false
PrefetchFailed(p) ==
    /\ prefetches[p].pc \in {"text", "audio"}
    /\ prefetching' = FALSE
    /\ prefetches' = [prefetches EXCEPT ![p] = NoPrefetch]
    /\ UNCHANGED <<sections, allBlocks>>
    /\ PrefetchFrame

Prefetch ==
    \/ \E k \in 0..MaxSections, p \in PrefetchIds : PrefetchNextSection(k, p)
    \/ \E p \in PrefetchIds, n \in 0..RateBlocks : PrefetchTextDone(p, n)
    \/ \E p \in PrefetchIds, dur \in Durations \cup {0} : PrefetchAudioDone(p, dur)
    \/ \E p \in PrefetchIds : PrefetchFailed(p)

\* ------------------------------------------------------------------ time
Started(it) == it.start <= CurrentTime
Ended(it) == it.pos = it.dur

\* ticks until the source's next event on the audio clock
SourceWait(it) ==
    IF Started(it) THEN (it.dur - it.pos + it.rate - 1) \div it.rate
                   ELSE it.start - CurrentTime

Waits ==
    {t.left : t \in timers}
    \cup (IF ctxState = "running"
          THEN {SourceWait(audioQueue[k]) : k \in 1..Len(audioQueue)}
          ELSE {})

SetMin(S) == CHOOSE x \in S : \A y \in S : x <= y

Step == SetMin(Waits \cup {Quantum})

\* an instant dt later: dt nearer, or further in the past
Later(x, dt) == IF x = Unset THEN Unset ELSE Max(x - dt, -1)

PlayedFor(it, dt) ==
    IF Started(it)
    THEN [it EXCEPT !.pos = Min(it.dur, it.pos + it.rate * dt), !.start = it.start - dt]
    ELSE [it EXCEPT !.start = it.start - dt]

\* time passes, up to the next timer, source start or source end; timers run on
\* the wall clock, the sources on the audio clock, which stands still while the
\* context is suspended
Advance ==
    /\ stopped = {}
    /\ Step > 0
    /\ timers # {} \/ ctxState = "running"
    /\ timers' = {[t EXCEPT !.left = t.left - Step] : t \in timers}
    /\ IF ctxState = "running"
       THEN /\ audioQueue' = [k \in 1..Len(audioQueue) |-> PlayedFor(audioQueue[k], Step)]
            /\ nextStartTime' = Later(nextStartTime, Step)
            /\ lastEnd' = Later(lastEnd, Step)
       ELSE UNCHANGED <<audioQueue, nextStartTime, lastEnd>>
    /\ UNCHANGED <<status, error, sections, currentlyPlayingBlockId, playbackSpeed,
                   showKeyInput, ctxState, allBlocks, playbackSpeedRef, stopped, runs,
                   nruns, svc, prefetching, prefetches, keys>>

\* what the browser does on its own
Browser ==
    \/ \E k \in 1..Len(audioQueue) : OnEnded(k)
    \/ \E s \in stopped : OnEndedStopped(s)
    \/ \E t \in timers : FireTimer(t)
    \/ Advance

\* one document, every outcome of the collaborators, at the initial playback rate
Next ==
    \/ (nruns < SoloRuns /\ HandleFileUpload)
    \/ \E r \in RunIds : ParseDone(r)
    \/ \E r \in RunIds : ParseFail(r)
    \/ \E r \in RunIds, resp \in Responses(MaxSections) :
           ExtractDone(r, ExtractSections(resp, MaxPages))
    \/ \E r \in RunIds, resp \in ProcessAnswers(MaxBlocks) : ProcessReturns(r, resp)
    \/ \E r \in RunIds, dur \in Durations \cup {0} : SynthDone(r, dur)
    \/ \E r \in RunIds : SynthInvalidKey(r)
    \/ Browser
    \/ Reset
    \/ TogglePlayback
    \/ HandleSaveKey

Spec == Init /\ [][Next]_vars

\* one document of sections of at most RateBlocks blocks, under every playback rate
NextRate ==
    \/ (nruns < SoloRuns /\ HandleFileUpload)
    \/ \E r \in RunIds : ParseDone(r)
    \/ \E r \in RunIds : ParseFail(r)
    \/ \E r \in RunIds, resp \in Responses(MaxSections) :
           ExtractDone(r, ExtractSections(resp, MaxPages))
    \/ \E r \in RunIds, k \in 0..RateBlocks : ProcessDone(r, k, FALSE)
    \/ \E r \in RunIds : ProcessInvalidKey(r)
    \/ \E r \in RunIds, dur \in Durations \cup {0} : SynthDone(r, dur)
    \/ \E r \in RunIds : SynthInvalidKey(r)
    \/ Browser
    \/ Reset
    \/ TogglePlayback
    \/ \E speed \in Speeds : SetPlaybackSpeed(speed)
    \/ HandleSaveKey

SpecRate == Init /\ [][NextRate]_vars

\* documents uploaded one after the other, each of at most UploadSections
\* sections of at most RateBlocks blocks, with every control of the UI
NextUpload ==
    \/ HandleFileUpload
    \/ \E r \in RunIds : ParseDone(r)
    \/ \E r \in RunIds : ParseFail(r)
    \/ \E r \in RunIds, resp \in Responses(UploadSections) :
           ExtractDone(r, ExtractSections(resp, MaxPages))
    \/ \E r \in RunIds, k \in 0..RateBlocks : ProcessDone(r, k, FALSE)
    \/ \E r \in RunIds : ProcessInvalidKey(r)
    \/ \E r \in RunIds, dur \in Durations \cup {0} : SynthDone(r, dur)
    \/ \E r \in RunIds : SynthInvalidKey(r)
    \/ Browser
    \/ Reset
    \/ TogglePlayback
    \/ HandleSaveKey
    \/ UploadNonPdf
    \/ DismissError
    \/ OpenSettings

SpecUpload == Init /\ [][NextUpload]_vars

\* a first visit: localStorage is empty, the user fills in the settings panel,
\* saves, reads one document, and the keys are cleared at any time
InitKeys == Init /\ keys = NoKeys

NextKeys ==
    \/ \E v \in KeyFields : SetTempOpenRouterKey(v)
    \/ \E v \in KeyFields : SetTempDeepgramKey(v)
    \/ HandleSaveKey
    \/ HandleClearKey
    \/ OpenSettings
    \/ Reset
    \/ (nruns < SoloRuns /\ HandleFileUpload)
    \/ \E r \in RunIds : ParseDone(r)
    \/ \E r \in RunIds, resp \in Responses(UploadSections) :
           ExtractDone(r, ExtractSections(resp, MaxPages))
    \/ \E r \in RunIds, k \in 0..RateBlocks : ProcessDone(r, k, FALSE)
    \/ \E r \in RunIds, dur \in Durations \cup {0} : SynthDone(r, dur)
    \/ Browser
    \/ TogglePlayback

SpecKeys == InitKeys /\ [][NextKeys]_vars

\* one document that is never reset.  The browser delivers every timer and every
\* ended event that is due and lets time pass, and every awaited call of the run
\* settles; what the user does is left to the user.
Pipeline ==
    \/ \E r \in RunIds : ParseDone(r)
    \/ \E r \in RunIds : ParseFail(r)
    \/ \E r \in RunIds, resp \in Responses(MaxSections) :
           ExtractDone(r, ExtractSections(resp, MaxPages))
    \/ \E r \in RunIds, resp \in ProcessAnswers(MaxBlocks) : ProcessReturns(r, resp)
    \/ \E r \in RunIds, dur \in Durations \cup {0} : SynthDone(r, dur)
    \/ \E r \in RunIds : SynthInvalidKey(r)

NextLive ==
    \/ (nruns < SoloRuns /\ HandleFileUpload)
    \/ Pipeline
    \/ \E k \in 1..Len(audioQueue) : OnEnded(k)
    \/ \E t \in timers : FireTimer(t)
    \/ Advance
    \/ TogglePlayback
    \/ HandleSaveKey

Fairness ==
    /\ WF_vars(Pipeline)
    /\ WF_vars(\E k \in 1..Len(audioQueue) : OnEnded(k))
    /\ WF_vars(\E t \in timers : FireTimer(t))
    /\ WF_vars(Advance)

SpecLive == Init /\ [][NextLive]_vars /\ Fairness

\* one document read from start to end with no hand on the transport controls
NextQuiet ==
    \/ (nruns < SoloRuns /\ HandleFileUpload)
    \/ Pipeline
    \/ \E k \in 1..Len(audioQueue) : OnEnded(k)
    \/ \E t \in timers : FireTimer(t)
    \/ Advance
    \/ HandleSaveKey

SpecQuiet == Init /\ [][NextQuiet]_vars /\ Fairness

\* documents uploaded one after the other while prefetchNextSection is called at
\* any moment, for any section index
NextPrefetch ==
    \/ HandleFileUpload
    \/ \E r \in RunIds : ParseDone(r)
    \/ \E r \in RunIds, resp \in Responses(MaxSections) :
           ExtractDone(r, ExtractSections(resp, MaxPages))
    \/ \E r \in RunIds, k \in 0..RateBlocks : ProcessDone(r, k, FALSE)
    \/ \E r \in RunIds : SynthDone(r, 0)
    \/ Reset
    \/ Prefetch

SpecPrefetch == Init /\ [][NextPrefetch]_vars

\* one call of a service function, taken by itself
ServiceCalls ==
    ExtractCalls \cup ProcessCalls \cup AudioCalls \cup BatchCalls \cup CleanCalls \cup ChunkCalls

InitService == InitApp /\ svc \in ServiceCalls

NextService ==
    \/ ExtractSectionsReturns
    \/ ProcessSectionTextReturns
    \/ GenerateAudioReturns
    \/ CleanTextForTTSReturns
    \/ ChunkTextReturns
    \/ BatchStarts
    \/ \E b \in 1..MaxBatchBlocks : BlockSettles(b)
    \/ \E b \in 1..MaxBatchBlocks : BlockRejects(b)
    \/ BatchReturns

SpecService == InitService /\ [][NextService]_vars

\* ================================================================= claims
\* a step in which queueAudio pushed a segment, and the segment
Enqueued == Len(audioQueue') = Len(audioQueue) + 1
NewItem == audioQueue'[Len(audioQueue')]

\* a source that has started and not yet played to its end
Sounding(it) == Started(it) /\ it.pos < it.dur

\* document-wide block order: section order, then block order
DocBefore(a, b) == a[1] < b[1] \/ (a[1] = b[1] /\ a[2] < b[2])

\* C1: between two stops, each enqueued segment starts no earlier than the end of
\* the previous one at the rate of its enqueue (start + duration / rate), and
\* exactly there when the clock has not passed the cursor.
C1_Contiguous ==
    [][Enqueued /\ lastEnd # Unset =>
          /\ NewItem.start >= lastEnd
          /\ (nextStartTime # Unset /\ nextStartTime >= CurrentTime =>
                  NewItem.start = lastEnd)]_vars

\* a segment scheduled on the cursor, right behind one whose rate was changed
\* after its enqueue
C1_Witness ==
    \E k \in 2..Len(audioQueue) :
        /\ audioQueue[k].how = "cursor"
        /\ audioQueue[k - 1].tempo # "kept"
        /\ audioQueue[k].start > CurrentTime

\* C2 as stated: every enqueue schedules its segment at least the lead-in after
\* the current audio-clock time.
C2_LeadInAlways == [][Enqueued => NewItem.start >= CurrentTime + LeadIn]_vars

\* C2 amended: the segment starts at now + lead-in when the cursor is unset, and
\* otherwise at max(cursor, now): after the cursor was passed, at now itself.
C2_StartRule ==
    [][Enqueued =>
          NewItem.start = (IF nextStartTime = Unset THEN CurrentTime + LeadIn
                           ELSE Max(nextStartTime, CurrentTime))]_vars

\* a segment enqueued after the clock had passed the cursor
C2_Witness == \E k \in 1..Len(audioQueue) : audioQueue[k].how = "late"

\* C3: a run enters the processing of a section either from extractSections, for
\* the first section, or in the step that marks the section before it ready; and
\* the in-flight queue, which is in order of scheduled start, holds the segments
\* of a run in document order.
C3_DocumentOrder ==
    /\ [][\A r \in RunIds :
              runs'[r] # runs[r] /\ runs'[r].pc = "processing" =>
                  \/ runs[r].pc = "extracting" /\ runs'[r].i = 0
                  \/ /\ runs[r].pc \in {"processing", "synth"}
                     /\ runs'[r].i = runs[r].i + 1
                     /\ Len(sections) > runs[r].i =>
                            sections'[runs[r].i + 1].status = "ready"]_vars
    /\ [](\A a, b \in 1..Len(audioQueue) :
              a < b => /\ audioQueue[a].start < audioQueue[b].start
                       /\ audioQueue[a].run = audioQueue[b].run =>
                              DocBefore(audioQueue[a].id, audioQueue[b].id))

\* three segments in flight, of both sections
C3_Witness ==
    /\ Len(audioQueue) >= 3
    /\ audioQueue[1].id[1] = 0
    /\ audioQueue[3].id[1] = 1

\* C4 as stated: no two in-flight segments sound at the same instant.
C4_NoOverlap ==
    \A a, b \in 1..Len(audioQueue) :
        a < b => ~(Sounding(audioQueue[a]) /\ Sounding(audioQueue[b]))

\* where the overlap comes from: two in-flight segments sound at the same
\* instant only when the earlier one had its rate lowered by setPlaybackSpeed
\* while it was in flight
OverlapOnlyAfterSlowdown ==
    \A a, b \in 1..Len(audioQueue) :
        a < b /\ Sounding(audioQueue[a]) /\ Sounding(audioQueue[b]) =>
            audioQueue[a].tempo = "slowed"

\* what setPlaybackSpeed may change of an in-flight segment: its rate (tempo is
\* history)
SameButRate(a, b) ==
    /\ a.run = b.run /\ a.id = b.id /\ a.start = b.start
    /\ a.dur = b.dur /\ a.pos = b.pos /\ a.how = b.how

\* C5: a change of the playback rate sets the rate of every in-flight segment
\* and changes neither the marker, the cursor, the queue's members, order and
\* start instants, nor the phase.
C5_RateFrame ==
    [][playbackSpeed' # playbackSpeed =>
          /\ playbackSpeedRef' = playbackSpeed'
          /\ Len(audioQueue') = Len(audioQueue)
          /\ \A k \in 1..Len(audioQueue) :
                 /\ audioQueue'[k].rate = playbackSpeed'
                 /\ SameButRate(audioQueue'[k], audioQueue[k])
          /\ UNCHANGED <<currentlyPlayingBlockId, nextStartTime, status, sections,
                         error, timers, stopped, ctxState, allBlocks, runs>>]_vars

\* the rate was changed under a segment in flight behind another
C5_Witness ==
    /\ Len(audioQueue) >= 2
    /\ audioQueue[2].tempo # "kept"
    /\ nextStartTime > CurrentTime

\* C6: the rate of a new segment and the advance of the cursor use the rate last
\* passed to setPlaybackSpeed.
C6_LiveRate ==
    [][Enqueued =>
          /\ NewItem.rate = playbackSpeed
          /\ nextStartTime' = NewItem.start + NewItem.dur \div playbackSpeed]_vars

\* a segment enqueued at a rate other than the one its run started with
C6_Witness ==
    \E k \in 1..Len(audioQueue) :
        /\ audioQueue[k].tempo = "kept"
        /\ runs[audioQueue[k].run].pc # "done"
        /\ audioQueue[k].rate # runs[audioQueue[k].run].speed0

\* C7 as stated: while the audio clock is suspended the active-block marker
\* moves to no segment whose start instant has not been reached on the audio
\* clock (steps of reset and upload, which clear the marker, set aside).
C7_MarkerFrozenWhilePaused ==
    [][(/\ ctxState = "suspended" /\ ctxState' = "suspended"
        /\ status # "IDLE" /\ status' # "IDLE"
        /\ currentlyPlayingBlockId' # currentlyPlayingBlockId) =>
          \E k \in 1..Len(audioQueue) :
              /\ audioQueue[k].id = currentlyPlayingBlockId'
              /\ Started(audioQueue[k])]_vars

\* C8 as stated: a toggle requested in the paused state, or in the playing
\* state, changes neither the audio clock nor the phase.
C8_ToggleIdempotent ==
    [][TogglePlayback /\ (\/ ctxState = "suspended" /\ status = "PAUSED"
                          \/ ctxState = "running" /\ status = "PLAYING") =>
          UNCHANGED <<ctxState, status>>]_vars

\* C8 amended: every toggle flips the audio clock: a running clock is suspended
\* and the phase becomes PAUSED, a suspended clock is resumed and the phase
\* becomes PLAYING.
C8_ToggleFlips ==
    [][TogglePlayback =>
          /\ ctxState = "running" => ctxState' = "suspended" /\ status' = "PAUSED"
          /\ ctxState = "suspended" => ctxState' = "running" /\ status' = "PLAYING"]_vars

\* resumed by a second toggle while a segment is in flight
C8_Witness ==
    /\ ctxState = "running"
    /\ status = "PLAYING"
    /\ \E k \in 1..Len(audioQueue) : audioQueue[k].pos > 0 /\ audioQueue[k].how = "first"
    /\ \E k \in 1..Len(sections) : Len(sections[k].blocks) > 0

\* C9 as stated: from a reset until the next upload the phase stays IDLE, the
\* queue empty, the cursor unset and the section list empty.
C9_ResetDiscards ==
    [][status = "IDLE" /\ nruns' = nruns =>
          /\ status' = "IDLE"
          /\ audioQueue' = <<>>
          /\ nextStartTime' = Unset
          /\ sections' = <<>>]_vars

\* a pending timer whose segment is no longer in the queue: the segment was
\* halted by stopAudio
Halted(t) == \A k \in 1..Len(audioQueue) :
                 ~(audioQueue[k].run = t.run /\ audioQueue[k].id = t.id)

\* C10 as stated: neither the deferred marker update nor the ended handler of a
\* segment halted by stopAudio changes the queue, the marker or the phase.
C10_StopSuppresses ==
    [][(\/ \E t \in timers : Halted(t) /\ FireTimer(t)
        \/ \E s \in stopped : OnEndedStopped(s)) =>
          UNCHANGED <<audioQueue, currentlyPlayingBlockId, status>>]_vars

\* C11: stopAudio leaves the queue empty and the cursor unset, and the first
\* enqueue after it is scheduled at now + lead-in, whatever the cursor was before
\* the stop, and sets the phase to PLAYING unless it is PAUSED (COMPLETED when the
\* enqueue is the last act of the run).
C11_StopThenFresh ==
    [][/\ Reset => audioQueue' = <<>> /\ nextStartTime' = Unset
       /\ (Enqueued /\ lastEnd = Unset) =>
              /\ NewItem.start = CurrentTime + LeadIn
              /\ status' = (IF runs'[NewItem.run].pc = "done" THEN "COMPLETED"
                            ELSE IF status = "PAUSED" THEN "PAUSED" ELSE "PLAYING")]_vars

\* a first enqueue that follows a stop: a block before it had audio, so the
\* cursor had been set
C11_Witness ==
    \E k \in 1..Len(audioQueue) :
        /\ audioQueue[k].how = "first"
        /\ status = "PLAYING"
        /\ \E b \in 1..Len(allBlocks) :
               /\ allBlocks[b].audio > 0
               /\ DocBefore(allBlocks[b].id, audioQueue[k].id)

\* C12: in the step with which handleFileUpload begins a run the in-flight queue
\* is empty, the cursor is unset and the document block list is empty.
C12_UploadStartsClean ==
    [][nruns' # nruns =>
          /\ audioQueue' = <<>>
          /\ nextStartTime' = Unset
          /\ allBlocks' = <<>>]_vars

\* a second document is being parsed while a marker timer of a segment of the
\* first document is still pending
C12_Witness ==
    /\ nruns = 2
    /\ status = "PARSING_PDF"
    /\ timers # {}

\* C13: when processSectionText or generateAudio rejects with INVALID_KEY the
\* phase becomes ERROR with the check-your-key message and the key prompt opens,
\* the queue, its timers, the cursor and the audio clock are left as they are, and
\* the run makes no step after it.
C13_InvalidKeyAborts ==
    [][\A r \in RunIds :
          /\ (ProcessInvalidKey(r) \/ SynthInvalidKey(r)) =>
                 /\ status' = "ERROR" /\ error' = "key" /\ showKeyInput'
                 /\ runs'[r].pc = "done"
                 /\ UNCHANGED <<audioQueue, timers, nextStartTime, ctxState, sections,
                                 allBlocks, stopped>>
          /\ runs[r].pc = "done" => runs'[r] = runs[r]]_vars

\* the key was rejected while the second section was processed, and a segment of
\* the first section goes on playing
C13_Witness ==
    /\ status = "ERROR"
    /\ error = "key"
    /\ Len(sections) = 2
    /\ sections[1].status = "ready"
    /\ sections[2].status = "processing"
    /\ \E k \in 1..Len(audioQueue) :
           /\ audioQueue[k].id[1] = 0
           /\ audioQueue[k].pos > 0
           /\ audioQueue[k].pos < audioQueue[k].dur

\* the answers with which section extraction fails: fetch rejecting, an HTTP
\* error (a rejected credential among them), content that is no JSON
FailedExtractions ==
    {resp \in Responses(UploadSections) : ~Ok(resp) \/ resp.json = "invalid"}

\* C14: when section extraction fails, extractSections returns exactly the one
\* section "Full Paper" over pages 1..N, and the run goes on with it as with any
\* section: one section, marked processing, phase PROCESSING_SECTION, not ERROR.
C14_ExtractFallback ==
    [][\A r \in RunIds, resp \in FailedExtractions :
          ExtractDone(r, ExtractSections(resp, MaxPages)) =>
              /\ runs'[r].secs = <<RawSection("Full Paper", 1, MaxPages)>>
              /\ runs'[r].pc = "processing"
              /\ Len(sections') = 1
              /\ sections'[1].status = "processing"
              /\ status' = "PROCESSING_SECTION"
              /\ error' = error]_vars

\* the text of the fallback section has been processed and its blocks are being
\* synthesized
C14_Witness ==
    \E r \in RunIds :
        /\ runs[r].secs = <<RawSection("Full Paper", 1, MaxPages)>>
        /\ runs[r].pc = "synth"
        /\ status # "ERROR"

\* the sections whose page range holds page p
Holding(secs, p) == {k \in 1..Len(secs) : secs[k].pageStart <= p /\ p <= secs[k].pageEnd}

\* C15 as stated: the page ranges of the sections extractSections returns for a
\* document of N pages cover 1..N without gap and without overlap: every page is
\* in the range of exactly one section.
C15_RangesTile ==
    (svc.fn = "extractSections" /\ svc.done) =>
        \A p \in 1..svc.pages : Cardinality(Holding(svc.out, p)) = 1

\* C16: when the synthesis of a block returns, the block is appended to the
\* document block list and to the blocks of its section; with null audio nothing
\* is queued or scheduled, with audio the block is queued in that same step, before
\* the synthesis of the next block begins.
C16_NullAudioSkipped ==
    [][\A r \in RunIds, dur \in Durations \cup {0} :
          SynthDone(r, dur) =>
              LET id == BlockId(runs[r].i, runs[r].j, runs[r].fb)
                  blk == [run |-> r, id |-> id, audio |-> dur]
              IN  /\ allBlocks' = Append(allBlocks, blk)
                  /\ dur = 0 => UNCHANGED <<audioQueue, timers, nextStartTime>>
                  /\ dur > 0 => /\ Enqueued
                                /\ NewItem.run = r /\ NewItem.id = id
                                /\ NewItem.dur = 4 * dur
                  /\ IF runs'[r].pc = "synth" /\ runs'[r].i = runs[r].i
                     THEN runs'[r].full = Append(runs[r].full, blk)
                     ELSE Len(sections) > runs[r].i =>
                              sections'[runs[r].i + 1].blocks = Append(runs[r].full, blk)]_vars

\* a section is ready with a block without audio followed by a block with audio;
\* the second is in the queue, the first is not
C16_Witness ==
    \E k \in 1..Len(sections) :
        /\ sections[k].status = "ready"
        /\ Len(sections[k].blocks) = 2
        /\ sections[k].blocks[1].audio = 0
        /\ sections[k].blocks[2].audio > 0
        /\ \E q \in 1..Len(audioQueue) : audioQueue[q].id = sections[k].blocks[2].id
        /\ \A q \in 1..Len(audioQueue) : audioQueue[q].id # sections[k].blocks[1].id
        /\ \E b \in 1..Len(allBlocks) : allBlocks[b].id = sections[k].blocks[1].id

\* the answers with which section-text processing fails without the credential
\* being rejected
FailedProcessing == {resp \in ProcessFailures : ~ProcessRejects(resp)}

\* the words of a text, in order
Words(t) == SelectSeq(t, LAMBDA x : x = "w")

\* a text without citation marks, without white space at either end and without
\* white space twice in a row
Normalized(t) ==
    /\ \A k \in 1..Len(t) : t[k] # "cite"
    /\ Len(t) > 0 => t[1] # "sp" /\ t[Len(t)] # "sp"
    /\ \A k \in 1..Len(t) - 1 : ~(t[k] = "sp" /\ t[k + 1] = "sp")

\* C17: when processSectionText fails for a reason other than a rejected
\* credential it returns one block: the fallback TEXT block of the section, whose
\* content is the text of the section's pages, normalized; the run takes it to
\* synthesis and does not enter ERROR.
C17_ProcessFallback ==
    [][\A r \in RunIds, resp \in FailedProcessing :
          ProcessReturns(r, resp) =>
              LET pages == SectionPages(runs[r].secs[runs[r].i + 1])
                  res == ProcessSectionText(resp, runs[r].i, pages)
              IN  /\ ~res.threw
                  /\ Len(res.blocks) = 1
                  /\ res.blocks[1].id = <<runs[r].i, -1>>
                  /\ res.blocks[1].type = "text"
                  /\ res.blocks[1].sectionId = runs[r].i
                  /\ Normalized(res.blocks[1].content)
                  /\ Words(res.blocks[1].content) = Words(Joined(pages))
                  /\ runs'[r].pc = "synth" /\ runs'[r].nblk = 1 /\ runs'[r].fb
                  /\ status' # "ERROR"]_vars

\* the first section was read from its fallback block and the run has gone on to
\* the second section
C17_Witness ==
    \E r \in RunIds :
        /\ runs[r].pc = "processing"
        /\ runs[r].i = 1
        /\ Len(sections) = 2
        /\ sections[1].status = "ready"
        /\ Len(sections[1].blocks) = 1
        /\ sections[1].blocks[1].id = <<0, -1>>
        /\ \E q \in 1..Len(audioQueue) : audioQueue[q].id = <<0, -1>>

\* the requests of a call of generateAudio that failed, and not on the credential
FailedRequests ==
    {k \in Requested(Len(ChunkText(svc.text, ChunkLimit)), svc.ans) :
        ~FetchDecodes(svc.ans[k]) /\ ~FetchRejects(svc.ans[k])}

\* C18: when a request made for a block fails other than on the credential (and
\* none is rejected on the credential), generateAudio resolves with null: nothing
\* of the block is played, and no INVALID_KEY reaches the run.
C18_FailureSilencesBlock ==
    (/\ svc.fn = "generateAudio"
     /\ svc.done
     /\ FailedRequests # {}
     /\ \A k \in 1..MaxChars : ~FetchRejects(svc.ans[k]))
    => ~svc.threw /\ svc.out = NoBuffer

\* the part of C18 that holds: such a failure never raises INVALID_KEY, and it
\* silences the block when the text is one chunk or when the request did not
\* get an HTTP answer that could be read
C18_FailureNeverRejects ==
    (/\ svc.fn = "generateAudio"
     /\ svc.done
     /\ FailedRequests # {}
     /\ \A k \in 1..MaxChars : ~FetchRejects(svc.ans[k]))
    => /\ ~svc.threw
       /\ (Len(ChunkText(svc.text, ChunkLimit)) = 1
           \/ \E k \in FailedRequests : FetchThrows(svc.ans[k])) => svc.out = NoBuffer

\* a progress report of run r: the section's text is back and voice generation
\* starts, a block's audio is back, the section is marked ready and the next entered
ProgressReport(r) ==
    \/ \E k \in 0..MaxBlocks, fb \in BOOLEAN : ProcessDone(r, k, fb)
    \/ \E dur \in Durations \cup {0} : SynthDone(r, dur)

\* C19: a progress report that finds the phase PLAYING or PAUSED does not replace
\* it with PROCESSING_SECTION or GENERATING_VOICE, and one that finds it PAUSED
\* neither makes it PLAYING nor resumes the audio clock, whether or not it enqueues
\* with the cursor unset.
C19_OverlayKept ==
    [][\A r \in RunIds :
          ProgressReport(r) =>
              /\ status \in {"PLAYING", "PAUSED"}
                     => status' \notin {"PROCESSING_SECTION", "GENERATING_VOICE"}
              /\ status = "PAUSED" => status' # "PLAYING" /\ ctxState' = ctxState]_vars

\* a segment was enqueued with the cursor unset while the phase was PAUSED
C19_Witness ==
    /\ status = "PAUSED"
    /\ ctxState = "suspended"
    /\ \E k \in 1..Len(audioQueue) : audioQueue[k].how = "first" /\ audioQueue[k].pos = 0
    /\ \E r \in RunIds : runs[r].pc = "synth"

\* the run went through its last section: every section is ready
Completed ==
    /\ \E r \in RunIds : runs[r].pc = "done"
    /\ Len(sections) > 0
    /\ \A k \in 1..Len(sections) : sections[k].status = "ready"

\* C20: in a run that is never reset, once the pipeline has completed and the
\* in-flight queue is empty, the active-block marker is eventually null.
C20_MarkerEventuallyCleared ==
    (Completed /\ Len(audioQueue) = 0) ~> (currentlyPlayingBlockId = Null)

\* the part of C20 that holds: the ended event that empties the queue while the
\* phase is COMPLETED clears the marker
C20_ClearedOnLastEnded ==
    [][\A k \in 1..Len(audioQueue) :
          (OnEnded(k) /\ Len(audioQueue) = 1 /\ status = "COMPLETED")
              => currentlyPlayingBlockId' = Null]_vars

\* run r reads a document of one section with one block
OneBlockRun(r) == runs[r].pc = "synth" /\ runs[r].nsec = 1 /\ runs[r].nblk = 1

\* the document of one section with one block, its audio synthesized, was read
OneBlockRead ==
    /\ Len(sections) = 1
    /\ sections[1].status = "ready"
    /\ Len(allBlocks) = 1
    /\ allBlocks[1].audio > 0

\* C21: for a document of one section with one block whose synthesis succeeds,
\* read with no user input: the report of the synthesis sets COMPLETED and
\* schedules exactly one segment, leaving the marker null; the marker becomes the
\* block's id at the instant the segment starts, and no other way; it is null
\* again once the segment has ended, and stays null.
C21_OneBlockScenario ==
    /\ [][\A r \in RunIds, dur \in Durations :
             (OneBlockRun(r) /\ SynthDone(r, dur)) =>
                 /\ status' = "COMPLETED"
                 /\ Len(audioQueue') = 1
                 /\ audioQueue'[1].start = CurrentTime + LeadIn
                 /\ currentlyPlayingBlockId' = Null]_vars
    /\ [][(OneBlockRead /\ currentlyPlayingBlockId' # currentlyPlayingBlockId
                        /\ currentlyPlayingBlockId' # Null) =>
             /\ currentlyPlayingBlockId = Null
             /\ Len(audioQueue) = 1
             /\ audioQueue[1].id = currentlyPlayingBlockId'
             /\ audioQueue[1].start = CurrentTime
             /\ audioQueue[1].pos = 0]_vars
    /\ [](OneBlockRead => Len(audioQueue) <= 1 /\ status = "COMPLETED")
    /\ (OneBlockRead /\ Len(audioQueue) = 1 /\ audioQueue[1].pos = 0)
           ~> (Len(allBlocks) = 1 /\ currentlyPlayingBlockId = allBlocks[1].id)
    /\ OneBlockRead ~> [](Len(audioQueue) = 0 /\ currentlyPlayingBlockId = Null)

\* the one block was played to its end and the marker is null again
C21_Witness ==
    /\ OneBlockRead
    /\ status = "COMPLETED"
    /\ Len(audioQueue) = 0
    /\ timers = {}
    /\ lastEnd # Unset
    /\ currentlyPlayingBlockId = Null

\* the executions of prefetchNextSection that are past the guard and have not
\* reached their finally block
InFlight == {p \in PrefetchIds : prefetches[p].pc # "none"}

C22_GuardedCall ==
    [][\A k \in 0..MaxSections, p \in PrefetchIds :
          PrefetchNextSection(k, p) =>
              /\ prefetches'[p].pc # "none"
                     => k < Len(sections) /\ sections[k + 1].status = "pending"
              /\ prefetching => UNCHANGED vars]_vars

\* the audio of section n is playing
SectionSounding(n) ==
    /\ ctxState = "running"
    /\ \E q \in 1..Len(audioQueue) : audioQueue[q].id[1] = n /\ Sounding(audioQueue[q])

\* section n exists and is pending
StillPending(n) == n < Len(sections) /\ sections[n + 1].status = "pending"

\* an execution of prefetchNextSection works on section n
Prefetched(n) == \E p \in PrefetchIds : prefetches[p].pc # "none" /\ prefetches[p].sec = n

\* C23: while the audio of section N is playing and section N+1 exists and is
\* pending, a prefetch of section N+1 is eventually started.
C23_PrefetchStarts ==
    \A n \in 0..(MaxSections - 1) :
        (SectionSounding(n) /\ StillPending(n + 1)) ~> Prefetched(n + 1)

\* C24: once the phase is ERROR it stays ERROR under every event but a reset or
\* a new upload.
C24_ErrorTerminal ==
    [][(status = "ERROR" /\ status' # "ERROR") => (Reset \/ HandleFileUpload)]_vars

\* the part of C24 that holds: the phase leaves ERROR by no segment completion,
\* timer, rate change, dismissal or saved key; it leaves by reset, by the
\* play/pause toggle, or by a report of a run that is still in flight
C24_ErrorLeftOnlyBy ==
    [][(status = "ERROR" /\ status' # "ERROR") =>
          (Reset \/ TogglePlayback \/ runs' # runs)]_vars

\* run r is under way
Running(r) == runs[r].pc \notin {"none", "done"}

\* C25: a run whose awaited calls all settle ends, and the step that ends it sets
\* the phase to COMPLETED or to ERROR; ERROR is set only when parsing failed or a
\* credential was rejected, and COMPLETED only with every section marked ready.
C25_RunTerminates ==
    /\ \A r \in RunIds : Running(r) ~> (runs[r].pc = "done")
    /\ [][\A r \in RunIds :
             (Running(r) /\ runs'[r].pc = "done") =>
                 /\ status' \in {"COMPLETED", "ERROR"}
                 /\ status' = "ERROR" =>
                        (ParseFail(r) \/ ProcessInvalidKey(r) \/ SynthInvalidKey(r))
                 /\ status' = "COMPLETED" =>
                        \A k \in 1..Len(sections') : sections'[k].status = "ready"]_vars
    /\ [][(status' = "COMPLETED" /\ status # "COMPLETED") =>
             \E r \in RunIds : Running(r) /\ runs'[r].pc = "done"]_vars

\* a document of two sections was read to its end
C25_Witness ==
    /\ status = "COMPLETED"
    /\ \E r \in RunIds : runs[r].pc = "done"
    /\ Len(sections) = 2
    /\ \A k \in 1..2 : sections[k].status = "ready" /\ Len(sections[k].blocks) > 0

\* the order of the statuses a section goes through
StatusRank(st) == IF st = "pending" THEN 0 ELSE IF st = "processing" THEN 1 ELSE 2

\* C26: the step that marks a section ready is the one in which the synthesis of
\* its last block came back (or its text came back with no block), and it stores
\* as many blocks as were returned for the section; the status of a section never
\* moves backward; at most one section is processing at any time.
C26_SectionLifecycle ==
    /\ [][\A k \in 1..Len(sections') :
             (k <= Len(sections) /\ sections[k].status # "ready"
                                 /\ sections'[k].status = "ready") =>
                 \E r \in RunIds :
                     /\ Running(r)
                     /\ runs[r].i = k - 1
                     /\ Len(sections'[k].blocks) = runs[r].nblk
                     /\ runs[r].nblk > 0 =>
                            /\ runs[r].pc = "synth"
                            /\ runs[r].j = runs[r].nblk - 1
                            /\ Len(runs[r].full) = runs[r].nblk - 1]_vars
    /\ [][\A k \in 1..Len(sections') :
             k <= Len(sections) =>
                 StatusRank(sections'[k].status) >= StatusRank(sections[k].status)]_vars
    /\ [](Cardinality({k \in 1..Len(sections) : sections[k].status = "processing"}) <= 1)

\* the first section is ready with two blocks and the second is being processed
C26_Witness ==
    /\ Len(sections) = 2
    /\ sections[1].status = "ready"
    /\ Len(sections[1].blocks) = 2
    /\ sections[2].status = "processing"

\* the segments in the queue, each known by its run and block
InQueue(q) == {[run |-> q[k].run, id |-> q[k].id] : k \in 1..Len(q)}

\* C27: the set of segments in the in-flight queue changes only by the enqueue of
\* a synthesized block, which adds that segment, by a segment's ended event,
\* which removes that segment and no other, and by stopAudio, which removes all;
\* the ended event of a segment halted by an earlier stop removes nothing.
C27_QueueMembership ==
    /\ [][InQueue(audioQueue') # InQueue(audioQueue) =>
             \/ /\ Enqueued
                /\ \E r \in RunIds, dur \in Durations : SynthDone(r, dur)
                /\ InQueue(audioQueue') =
                       InQueue(audioQueue) \cup {[run |-> NewItem.run, id |-> NewItem.id]}
             \/ \E k \in 1..Len(audioQueue) :
                    /\ OnEnded(k)
                    /\ audioQueue' = [m \in 1..Len(audioQueue) - 1 |->
                                         IF m < k THEN audioQueue[m] ELSE audioQueue[m + 1]]
             \/ Reset /\ audioQueue' = <<>>]_vars
    /\ [][\A r \in RunIds, dur \in Durations :
             SynthDone(r, dur) /\ ctxState # "none" => Enqueued]_vars
    /\ [][\A s \in stopped : OnEndedStopped(s) => audioQueue' = audioQueue]_vars
    /\ [](\A a, b \in 1..Len(audioQueue) :
              (audioQueue[a].run = audioQueue[b].run /\ audioQueue[a].id = audioQueue[b].id)
                  => a = b)

\* the ended event of a halted segment is pending while segments enqueued after
\* the stop are in flight
C27_Witness == stopped # {} /\ Len(audioQueue) >= 2

\* C28: every section extractSections returns for a document of N pages has
\* 1 <= pageStart <= N and 1 <= pageEnd <= N.
C28_RangeClamped ==
    (svc.fn = "extractSections" /\ svc.done) =>
        \A k \in 1..Len(svc.out) :
            /\ 1 <= svc.out[k].pageStart /\ svc.out[k].pageStart <= svc.pages
            /\ 1 <= svc.out[k].pageEnd /\ svc.out[k].pageEnd <= svc.pages

\* the part of C28 that holds: pageStart is at least 1 and pageEnd at most N
C28_ClampedOutward ==
    (svc.fn = "extractSections" /\ svc.done) =>
        \A k \in 1..Len(svc.out) :
            1 <= svc.out[k].pageStart /\ svc.out[k].pageEnd <= svc.pages

\* C29: when the PDF parse failure escapes the run, the phase becomes ERROR and
\* the error text is the failure's message, while the sections, the document block
\* list, the queue with its timers, the cursor and the audio clock are left as
\* they are and no key prompt opens; dismissing the error changes the error text
\* only.
C29_FailureFrame ==
    /\ [][\A r \in RunIds :
             ParseFail(r) =>
                 /\ status' = "ERROR"
                 /\ error' = "parse"
                 /\ UNCHANGED <<sections, allBlocks, audioQueue, timers, nextStartTime,
                                 ctxState, showKeyInput, currentlyPlayingBlockId>>]_vars
    /\ [][DismissError =>
             /\ error' = "none"
             /\ UNCHANGED <<status, sections, allBlocks, audioQueue, timers,
                             nextStartTime, ctxState, showKeyInput,
                             currentlyPlayingBlockId, runs, playbackSpeed>>]_vars

\* the parse failure is shown while a segment enqueued earlier is playing
C29_Witness ==
    /\ status = "ERROR"
    /\ error = "parse"
    /\ ctxState = "running"
    /\ \E k \in 1..Len(audioQueue) : Sounding(audioQueue[k]) /\ audioQueue[k].pos > 0

\* C30: generateAudioBatch has at most Concurrency calls of generateAudio in
\* flight, and it starts the blocks of a batch only when no block started before
\* is still in flight; it returns only when every block with a content has its
\* result.
C30_BatchBound ==
    /\ [](svc.fn = "generateAudioBatch" => Cardinality(svc.flight) <= Concurrency)
    /\ [][(svc.fn = "generateAudioBatch" /\ ~(svc'.flight \subseteq svc.flight)) =>
             /\ svc.flight = {}
             /\ \A b \in 1..svc.i : svc.blocks[b] => b \in svc.results]_vars
    /\ [][(svc.fn = "generateAudioBatch" /\ ~svc.done /\ svc'.done /\ ~svc'.threw) =>
             \A b \in 1..Len(svc.blocks) : svc.blocks[b] => b \in svc.results]_vars

\* the third batch of a list of seven blocks is in flight
C30_Witness ==
    /\ svc.fn = "generateAudioBatch"
    /\ Len(svc.blocks) = 7
    /\ svc.flight = {7}
    /\ svc.results = 1..6

\* C31: cleaning a cleaned text changes nothing, and the empty text is cleaned to
\* the empty text.
C31_CleanIdempotent ==
    (svc.fn = "cleanTextForTTS" /\ svc.done) =>
        /\ CleanTextForTTS(svc.out) = svc.out
        /\ svc.text = <<>> => svc.out = <<>>

\* the parts of C31 that hold: the empty text stays empty, and a text without
\* marks is cleaned once and for all
C31_CleanWordsIdempotent ==
    (svc.fn = "cleanTextForTTS" /\ svc.done) =>
        /\ svc.text = <<>> => svc.out = <<>>
        /\ (\A k \in 1..Len(svc.text) : svc.text[k] \notin Marks)
               => CleanTextForTTS(svc.out) = svc.out

\* the characters of a text that are no white space, in order
Inked(t) == SelectSeq(t, LAMBDA x : x # "sp")

RECURSIVE Flattened(_)
Flattened(chunks) ==
    IF Len(chunks) = 0 THEN <<>> ELSE chunks[1] \o Flattened(Tail(chunks))

\* C32: every chunk chunkText returns is non-empty and no longer than the limit,
\* and the chunks in order hold the non-white-space characters of the text, each
\* once and in order.
C32_ChunksWithinLimit ==
    (svc.fn = "chunkText" /\ svc.done) =>
        /\ \A k \in 1..Len(svc.out) : Len(svc.out[k]) > 0 /\ Len(svc.out[k]) <= svc.limit
        /\ Inked(Flattened(svc.out)) = Inked(svc.text)

\* the part of C32 that holds: chunkText returns, no chunk is longer than the
\* limit plus one, the characters are kept in order, and a chunk that is not the
\* last was cut at a blank when there was one in reach
C32_ChunksPreserve ==
    (svc.fn = "chunkText" /\ svc.done) =>
        /\ \A k \in 1..Len(svc.out) : Len(svc.out[k]) <= svc.limit + 1
        /\ Inked(Flattened(svc.out)) = Inked(svc.text)
        /\ (Len(svc.text) > svc.limit /\ LastIndexOfSpace(svc.text, svc.limit) > 0) =>
               Len(svc.out[1]) <= LastIndexOfSpace(svc.text, svc.limit)

\* a field of the settings panel that holds nothing but blanks
Blank(f) == \A i \in 1..Len(f) : f[i] = "sp"

\* the two items of localStorage
Stored(ks) == <<ks.openrouter_api_key, ks.deepgram_api_key>>

\* C33: starting from empty storage the two credentials are present together or
\* absent together; a save with a blank field changes nothing; a step that stores
\* credentials stores both trimmed fields, and a step that removes them removes
\* both, stops the audio and leaves the phase IDLE.
C33_KeysTogether ==
    /\ []((keys.openrouter_api_key = Null) <=> (keys.deepgram_api_key = Null))
    /\ [][/\ (HandleSaveKey /\ (Blank(keys.tempOpenRouterKey) \/ Blank(keys.tempDeepgramKey)))
              => UNCHANGED vars
          /\ (Stored(keys') # Stored(keys)) =>
               \/ /\ ~Blank(keys.tempOpenRouterKey) /\ ~Blank(keys.tempDeepgramKey)
                  /\ Stored(keys') = <<Trimmed(keys.tempOpenRouterKey),
                                       Trimmed(keys.tempDeepgramKey)>>
               \/ /\ Stored(keys') = <<Null, Null>>
                  /\ status' = "IDLE"
                  /\ audioQueue' = <<>>
                  /\ nextStartTime' = Unset
                  /\ \A k \in 1..Len(audioQueue) :
                         [run |-> audioQueue[k].run, id |-> audioQueue[k].id] \in stopped'
                  /\ showKeyInput']_vars

\* the keys were saved on a first visit, a document was read, the keys were cleared
C33_ClearedAfterUse ==
    /\ keys.openrouter_api_key = Null
    /\ nruns > 0
    /\ allBlocks # <<>>

\* the blocks held for the document on display: the block list, the blocks of
\* the sections, the blocks whose audio is in the playback queue
HeldRuns ==
    {allBlocks[k].run : k \in 1..Len(allBlocks)}
    \cup {audioQueue[k].run : k \in 1..Len(audioQueue)}
    \cup UNION {{sections[k].blocks[j].run : j \in 1..Len(sections[k].blocks)} :
                k \in 1..Len(sections)}

\* a step taken by the continuation of an upload that is not the latest one
StepOfEarlierRun == \E r \in 1..(nruns - 1) : runs'[r] # runs[r]

\* C34 as stated: once a new upload has started, no block of an earlier upload is
\* in the block list, in a section or in the playback queue, and no step of an
\* earlier upload changes the phase or the sections.
C34_RunsIsolated ==
    /\ []((nruns > 1) => (HeldRuns \subseteq {nruns}))
    /\ [][(nruns' = nruns /\ StepOfEarlierRun) => UNCHANGED <<status, sections>>]_vars

\* C35 as stated: whenever the phase is PLAYING the audio clock is running, and
\* whenever the audio clock is suspended the phase is PAUSED.
C35_PhaseAgreesWithClock ==
    /\ (status = "PLAYING") => (ctxState = "running")
    /\ (ctxState = "suspended") => (status = "PAUSED")

\* the half of C35 that holds while one document is read: a PLAYING phase is
\* never shown over a suspended clock unless an enqueue found the cursor unset
C35_PlayingRuns ==
    [][(status' = "PLAYING" /\ ctxState' = "suspended") =>
           \/ (status = "PLAYING" /\ ctxState = "suspended")
           \/ (Enqueued /\ nextStartTime = Unset)]_vars

\* the sequential loop of upload r turns to a section
LoopEnters(r) ==
    /\ runs[r].pc \in {"processing", "synth"}
    /\ runs'[r].pc = "processing"
    /\ runs'[r].i # runs[r].i

====
